---- MODULE Spec2Model ----
(***************************************************************************)
(* Verification model of the Claudia backend (chris-bluera/claudia):       *)
(*   - the Session Registry  (backend/app/services/session_tracker.py,     *)
(*     on the ORM classes of backend/app/db/models.py, called inside the   *)
(*     unit of work of backend/app/db/database.py get_db);                 *)
(*   - the Event Bus         (backend/app/main.py broadcast_event and      *)
(*     websocket_endpoint);                                                *)
(*   - the Config Resolver   (backend/app/services/settings_aggregator.py);*)
(*   - the Watcher           (backend/app/services/file_monitor.py, with   *)
(*     its callback handle_file_event of backend/app/main.py).             *)
(* Timestamps are minutes on a monotone clock `now`.                       *)
(***************************************************************************)
EXTENDS Integers, Sequences, FiniteSets, TLC

VARIABLES
    sessions,           \* claudia.claude_sessions: session_id -> row (mapped columns)
    tool_executions,    \* claudia.tool_executions, in insertion order
    user_prompts,       \* claudia.user_prompts, in insertion order
    assistant_messages, \* claudia.assistant_messages, in insertion order
    now,                \* datetime.now(timezone.utc), in minutes
    result,             \* outcome of the last registry call, as its caller sees it
    uow,                \* the concurrent start requests: position and locals of each
    active_connections, \* main.py: the list of subscribed WebSockets
    ws,                 \* each WebSocket's endpoint: "new", "open" or "closed"
    bc,                 \* each broadcast_event call: its position and locals
    settings_files,     \* the four settings files: precedence level -> file content
    effective,          \* outcome of the last compute_effective_settings call
    merge,              \* a _deep_merge call on its own: base, overlay, original base
    summary,            \* outcome of the last get_settings_summary call
    root_exists,        \* whether the projects directory exists
    transcript,         \* the lines of the transcript file of session "s1"
    observer,           \* FileMonitor.observer: None or the Observer it holds
    observers,          \* every Observer created so far: its thread and queue
    fm,                 \* the main thread in FileMonitor: position and last call
    delivered,          \* the calls of the watcher's callback, in order
    tasks               \* the tasks created on the event loop, in order

regVars == <<sessions, tool_executions, user_prompts, assistant_messages, now, result,
            uow>>

busVars == <<active_connections, ws, bc>>

cfgVars == <<settings_files, effective, merge, summary>>

fmVars == <<root_exists, transcript, observer, observers, fm, delivered, tasks>>

vars == <<sessions, tool_executions, user_prompts, assistant_messages, now, result,
          uow, active_connections, ws, bc, settings_files, effective, merge, summary,
          root_exists, transcript, observer, observers, fm, delivered, tasks>>

-----------------------------------------------------------------------------
(* Bounds of the model *)

MaxTime == 90
TickMinutes == 30
MaxChildren == 1
MaxBroadcasts == 1
MaxMerges == 2
MaxObservers == 2
MaxNotifications == 2
MaxLines == 2

(* Program constants *)

SESSION_TIMEOUT_MINUTES == 60

NULL == -1

None == "None"

SessionIds == {"s1", "s2"}

\* JSON objects are modelled by their key sets; NoneDict is Python's None
EmptyDict == {}
NoneDict == {"<None>"}

-----------------------------------------------------------------------------
(* ORM mapping: db/models.py *)

\* attributes the declarative class SessionModel defines
SessionModelAttrs ==
    {"id", "session_id", "project_path", "project_name", "started_at",
     "ended_at", "is_active", "session_metadata", "created_at", "updated_at",
     "tool_executions", "settings_snapshots", "user_prompts",
     "assistant_messages", "to_dict"}

\* the columns of a row this model keeps (id, created_at, updated_at are
\* never read by the registry operations)
RowFields ==
    {"project_path", "project_name", "started_at", "ended_at", "is_active",
     "session_metadata"}

\* db.flush(): only mapped attributes of an object reach the row
Flush(obj) == [a \in RowFields \cap SessionModelAttrs |-> obj[a]]

\* the object the ORM loads for a row
Load(s) == [a \in RowFields \cup {"session_id"} |->
              IF a = "session_id" THEN s ELSE sessions[s][a]]

\* Base's declarative constructor: a keyword that is no attribute of the
\* class raises TypeError
ConstructorAccepts(kwargs) == kwargs \subseteq SessionModelAttrs

\* reading obj.a for an attribute the class does not define and the instance
\* was never given raises AttributeError
HasAttr(a) == a \in SessionModelAttrs

-----------------------------------------------------------------------------
(* Outcomes *)

Exists(s) == s \in DOMAIN sessions

\* the lifecycle state of an id, read off its row
Lifecycle(s) ==
    IF ~Exists(s) THEN "absent"
    ELSE IF sessions[s].is_active = TRUE THEN "active" ELSE "ended"

\* what the caller of a registry operation gets: the exception raised or
\* "ok" with the returned objects.  args keeps the arguments a claim reads
\* and was the lifecycle state the call found its id in.
Outcome(op, s, status, rows, args) ==
    [op |-> op, sid |-> s, status |-> status, rows |-> rows, args |-> args,
     was |-> IF s = None THEN None ELSE Lifecycle(s)]

ChildCount == Len(tool_executions) + Len(user_prompts) + Len(assistant_messages)

-----------------------------------------------------------------------------
(* db/database.py get_db: the unit of work of one call.  The registry only
   flushes; its caller commits when the call returns and rolls back when it
   raises, so a failed call leaves every table as it was. *)

Rollback(op, s, status) ==
    /\ result' = Outcome(op, s, status, <<>>, <<>>)
    /\ UNCHANGED <<sessions, tool_executions, user_prompts, assistant_messages, now>>

-----------------------------------------------------------------------------
(* SessionTracker.start_session *)

\* session_metadata = runtime_config or {}; plus transcript_path when given
StartMetadata(runtime_config, transcript_path) ==
    (IF runtime_config = NoneDict THEN EmptyDict ELSE runtime_config)
        \cup (IF transcript_path # None THEN {"transcript_path"} ELSE {})

\* keywords of the SessionModel(...) call that creates a record
StartSessionKwargs ==
    {"session_id", "project_path", "project_name", "session_metadata",
     "claudia_metadata", "source", "started_at", "is_active"}

\* the existing object after the assignments of the resume branch
Reactivated(obj, project_path, project_name, runtime_config, transcript_path) ==
    [obj EXCEPT !.project_path = project_path,
                !.project_name = project_name,
                !.started_at = now,
                !.is_active = TRUE,
                !.ended_at = NULL,
                !.session_metadata = StartMetadata(runtime_config, transcript_path)]

\* the object the create branch builds
Created(s, project_path, project_name, runtime_config, transcript_path) ==
    [session_id |-> s,
     project_path |-> project_path,
     project_name |-> project_name,
     started_at |-> now,
     ended_at |-> NULL,
     is_active |-> TRUE,
     session_metadata |-> StartMetadata(runtime_config, transcript_path)]

start_session(s, project_path, project_name, transcript_path, runtime_config, source) ==
    IF Exists(s)
    THEN \* resume branch: the assignments, then the read of existing.claudia_metadata
         IF ~HasAttr("claudia_metadata")
         THEN Rollback("start_session", s, "AttributeError")
         ELSE LET obj == Reactivated(Load(s), project_path, project_name,
                                     runtime_config, transcript_path)
              IN /\ sessions' = [sessions EXCEPT ![s] = Flush(obj)]
                 /\ result' = Outcome("start_session", s, "ok", <<obj>>,
                                      <<project_path, project_name>>)
                 /\ UNCHANGED <<tool_executions, user_prompts, assistant_messages, now>>
    ELSE \* create branch: SessionModel(**kwargs), add, flush
         IF ~ConstructorAccepts(StartSessionKwargs)
         THEN Rollback("start_session", s, "TypeError")
         ELSE LET obj == Created(s, project_path, project_name,
                                 runtime_config, transcript_path)
              IN /\ sessions' = (s :> Flush(obj)) @@ sessions
                 /\ result' = Outcome("start_session", s, "ok", <<obj>>,
                                      <<project_path, project_name>>)
                 /\ UNCHANGED <<tool_executions, user_prompts, assistant_messages, now>>

\* The start request of a hook, POST /api/sessions/start, as the event loop
\* runs it: session_start under get_db's unit of work, suspended wherever
\* start_session or get_db awaits the database.  Two requests are in the
\* model; the rows a request wrote are seen by the other once committed.

Units == {1, 2}

IdleUnit == [pc |-> "idle", sid |-> None, found |-> FALSE, status |-> None,
             overlapped |-> FALSE]

InFlight(u) == uow[u].pc \notin {"idle", "done"}

\* the request arrives: start_session sends its SELECT and awaits db.execute
session_start(u, s) ==
    /\ uow[u].pc = "idle"
    /\ uow' = [v \in Units |->
                 IF v = u
                 THEN [pc |-> "execute", sid |-> s, found |-> FALSE, status |-> None,
                       overlapped |-> \E w \in Units \ {u} : InFlight(w)]
                 ELSE IF InFlight(v) THEN [uow[v] EXCEPT !.overlapped = TRUE]
                      ELSE uow[v]]
    /\ UNCHANGED <<sessions, tool_executions, user_prompts, assistant_messages,
                   now, result>>

\* db.execute returns what is committed; start_session runs on to its next
\* await: db.flush() when the branch it took got that far, else the
\* session.rollback() of get_db for the exception it raised
execute_returns(u) ==
    /\ uow[u].pc = "execute"
    /\ LET existing == Exists(uow[u].sid)
           raised == IF existing
                     THEN IF HasAttr("claudia_metadata") THEN None ELSE "AttributeError"
                     ELSE IF ConstructorAccepts(StartSessionKwargs) THEN None
                          ELSE "TypeError"
       IN uow' = [uow EXCEPT ![u].found = existing,
                             ![u].status = raised,
                             ![u].pc = IF raised = None THEN "flush" ELSE "rollback"]
    /\ UNCHANGED <<sessions, tool_executions, user_prompts, assistant_messages,
                   now, result>>

\* the request ends: after session.rollback() the exception leaves get_db;
\* after db.flush() (the INSERT fails on the unique session_id when another
\* request committed the id meanwhile) and session.commit() the row is stored
request_ends(u) ==
    /\ uow[u].pc \in {"rollback", "flush"}
    /\ LET s == uow[u].sid
       IN IF uow[u].pc = "rollback"
          THEN /\ uow' = [uow EXCEPT ![u].pc = "done"]
               /\ UNCHANGED sessions
          ELSE IF ~uow[u].found /\ Exists(s)
               THEN /\ uow' = [uow EXCEPT ![u].pc = "done", ![u].status = "IntegrityError"]
                    /\ UNCHANGED sessions
               ELSE /\ uow' = [uow EXCEPT ![u].pc = "done", ![u].status = "ok"]
                    /\ sessions' =
                          IF Exists(s)
                          THEN [sessions EXCEPT ![s] =
                                   Flush(Reactivated(Load(s), "/a", "a", NoneDict, None))]
                          ELSE (s :> Flush(Created(s, "/a", "a", NoneDict, None)))
                                   @@ sessions
    /\ UNCHANGED <<tool_executions, user_prompts, assistant_messages, now, result>>

-----------------------------------------------------------------------------
(* SessionTracker.end_session *)

\* (a variant that keeps the end timestamp of a session already ended)
Ended_keepsFirstEnd(obj, reason, project_path, project_name, session_metadata) ==
    [a \in DOMAIN obj \cup {"reason"} |->
        CASE a = "is_active" -> FALSE
          [] a = "ended_at" -> IF obj.ended_at # NULL THEN obj.ended_at ELSE now
          [] a = "reason" -> reason
          [] a = "project_path" /\ project_path # None -> project_path
          [] a = "project_name" /\ project_name # None -> project_name
          [] a = "session_metadata" /\ session_metadata # NoneDict -> session_metadata
          [] OTHER -> obj[a]]

\* (a variant that assigns the three optional fields whether supplied or not)
Ended_overwritesAll(obj, reason, project_path, project_name, session_metadata) ==
    [a \in DOMAIN obj \cup {"reason"} |->
        CASE a = "is_active" -> FALSE
          [] a = "ended_at" -> now
          [] a = "reason" -> reason
          [] a = "project_path" -> project_path
          [] a = "project_name" -> project_name
          [] a = "session_metadata" ->
                 IF session_metadata = NoneDict THEN EmptyDict ELSE session_metadata
          [] OTHER -> obj[a]]

\* the object after the assignments of end_session; reason is set on the
\* Python object, the optional fields only when supplied
Ended(obj, reason, project_path, project_name, session_metadata) ==
    [a \in DOMAIN obj \cup {"reason"} |->
        CASE a = "is_active" -> FALSE
          [] a = "ended_at" -> now
          [] a = "reason" -> reason
          [] a = "project_path" /\ project_path # None -> project_path
          [] a = "project_name" /\ project_name # None -> project_name
          [] a = "session_metadata" /\ session_metadata # NoneDict -> session_metadata
          [] OTHER -> obj[a]]

\* (a variant that creates the record it did not find)
end_session_creates(s) ==
    /\ sessions' = (s :> [project_path |-> None, project_name |-> None,
                          started_at |-> now, ended_at |-> now,
                          is_active |-> FALSE, session_metadata |-> EmptyDict])
                     @@ sessions
    /\ result' = Outcome("end_session", s, "ok", <<>>, <<>>)
    /\ UNCHANGED <<tool_executions, user_prompts, assistant_messages, now>>

\* if not session: raise SessionNotFoundException(session_id)
end_session_missing(s) == Rollback("end_session", s, "SessionNotFoundException")

end_session(s, reason, project_path, project_name, session_metadata) ==
    IF ~Exists(s)
    THEN end_session_missing(s)
    ELSE LET obj == Ended(Load(s), reason, project_path, project_name, session_metadata)
         IN /\ sessions' = [sessions EXCEPT ![s] = Flush(obj)]
            /\ result' = Outcome("end_session", s, "ok", <<obj>>,
                                 <<reason, project_path, project_name, session_metadata>>)
            /\ UNCHANGED <<tool_executions, user_prompts, assistant_messages, now>>

-----------------------------------------------------------------------------
(* SessionTracker.record_tool_execution, capture_user_prompt,
   capture_assistant_message *)

\* tool_name or "unknown"
ToolName(tool_name) == IF tool_name = None THEN "unknown" ELSE tool_name

\* (a variant that skips the look-up of the session)
record_tool_execution_unchecked(s, tool_name) ==
    LET rec == [session_id |-> s,
                tool_name |-> ToolName(tool_name),
                executed_at |-> now]
    IN /\ ChildCount < MaxChildren
       /\ tool_executions' = Append(tool_executions, rec)
       /\ result' = Outcome("record_tool_execution", s, "ok", <<rec>>, <<>>)
       /\ UNCHANGED <<sessions, user_prompts, assistant_messages, now>>

record_tool_execution(s, tool_name) ==
    IF ~Exists(s)
    THEN Rollback("record_tool_execution", s, "SessionNotFoundException")
    ELSE LET rec == [session_id |-> s,
                     tool_name |-> ToolName(tool_name),
                     executed_at |-> now]
         IN /\ ChildCount < MaxChildren
            /\ tool_executions' = Append(tool_executions, rec)
            /\ result' = Outcome("record_tool_execution", s, "ok", <<rec>>, <<>>)
            /\ UNCHANGED <<sessions, user_prompts, assistant_messages, now>>

\* (a variant that skips the look-up of the session)
capture_user_prompt_unchecked(s, prompt_text, embedding) ==
    LET rec == [session_id |-> s,
                prompt_text |-> prompt_text,
                embedding |-> embedding]
    IN /\ ChildCount < MaxChildren
       /\ user_prompts' = Append(user_prompts, rec)
       /\ result' = Outcome("capture_user_prompt", s, "ok", <<rec>>, <<>>)
       /\ UNCHANGED <<sessions, tool_executions, assistant_messages, now>>

\* embedding is what EmbeddingService.generate_embedding returned: a vector,
\* or None when the service is disabled or the request failed.  The
\* created_at column of prompts and messages is not kept: nothing reads it.
capture_user_prompt(s, prompt_text, embedding) ==
    IF ~Exists(s)
    THEN Rollback("capture_user_prompt", s, "SessionNotFoundException")
    ELSE LET rec == [session_id |-> s,
                     prompt_text |-> prompt_text,
                     embedding |-> embedding]
         IN /\ ChildCount < MaxChildren
            /\ user_prompts' = Append(user_prompts, rec)
            /\ result' = Outcome("capture_user_prompt", s, "ok", <<rec>>, <<>>)
            /\ UNCHANGED <<sessions, tool_executions, assistant_messages, now>>

capture_assistant_message(s, message_text, conversation_turn, embedding) ==
    IF ~Exists(s)
    THEN Rollback("capture_assistant_message", s, "SessionNotFoundException")
    ELSE LET rec == [session_id |-> s,
                     message_text |-> message_text,
                     conversation_turn |-> conversation_turn,
                     embedding |-> embedding]
         IN /\ ChildCount < MaxChildren
            /\ assistant_messages' = Append(assistant_messages, rec)
            /\ result' = Outcome("capture_assistant_message", s, "ok", <<rec>>, <<>>)
            /\ UNCHANGED <<sessions, tool_executions, user_prompts, now>>

-----------------------------------------------------------------------------
(* SessionTracker.get_session, get_active_sessions, _check_timeouts *)

get_session(s) ==
    /\ result' = Outcome("get_session", s, "ok",
                         IF Exists(s) THEN <<Load(s)>> ELSE <<>>, <<>>)
    /\ UNCHANGED <<sessions, tool_executions, user_prompts, assistant_messages, now>>

\* (a variant whose cutoff comparison is not strict)
TimedOut_inclusive(row, timeout_minutes) ==
    /\ row.is_active = TRUE
    /\ row.started_at <= now - timeout_minutes
    /\ row.ended_at = NULL

\* the WHERE clause of the UPDATE in _check_timeouts
TimedOut(row, timeout_minutes) ==
    /\ row.is_active = TRUE
    /\ row.started_at < now - timeout_minutes
    /\ row.ended_at = NULL

\* (a variant whose UPDATE sets ended_at and leaves is_active)
_check_timeouts_keepsActive(timeout_minutes) ==
    [s \in DOMAIN sessions |->
        IF TimedOut(sessions[s], timeout_minutes)
        THEN [sessions[s] EXCEPT !.ended_at = now]
        ELSE sessions[s]]

\* (a variant that takes the last tool execution, when there is one, as the
\* staleness signal)
_check_timeouts_byLastActivity(timeout_minutes) ==
    [s \in DOMAIN sessions |->
        IF /\ TimedOut(sessions[s], timeout_minutes)
           /\ ~\E i \in DOMAIN tool_executions :
                  /\ tool_executions[i].session_id = s
                  /\ tool_executions[i].executed_at >= now - timeout_minutes
        THEN [sessions[s] EXCEPT !.is_active = FALSE, !.ended_at = now]
        ELSE sessions[s]]

\* the table after the UPDATE of _check_timeouts
_check_timeouts(timeout_minutes) ==
    [s \in DOMAIN sessions |->
        IF TimedOut(sessions[s], timeout_minutes)
        THEN [sessions[s] EXCEPT !.is_active = FALSE, !.ended_at = now]
        ELSE sessions[s]]

\* SELECT ... WHERE is_active == True ORDER BY started_at DESC over table tbl:
\* the lists of the matching ids in an order the ORDER BY allows
ActiveOrderings(tbl) ==
    LET ids == {s \in DOMAIN tbl : tbl[s].is_active = TRUE}
    IN {q \in [1..Cardinality(ids) -> ids] :
           /\ \A i, j \in DOMAIN q : i # j => q[i] # q[j]
           /\ \A i, j \in DOMAIN q :
                 i < j => tbl[q[i]].started_at >= tbl[q[j]].started_at}

get_active_sessions ==
    LET swept == _check_timeouts(SESSION_TIMEOUT_MINUTES)
        rowcount == Cardinality({s \in DOMAIN sessions : swept[s] # sessions[s]})
    IN \E q \in ActiveOrderings(swept) :
          /\ sessions' = swept
          /\ result' = Outcome("get_active_sessions", None, "ok",
                               [i \in DOMAIN q |->
                                   [a \in RowFields \cup {"session_id"} |->
                                       IF a = "session_id" THEN q[i] ELSE swept[q[i]][a]]],
                               <<rowcount>>)
          /\ UNCHANGED <<tool_executions, user_prompts, assistant_messages, now>>

-----------------------------------------------------------------------------
(* SessionTracker.get_recent_sessions, get_sessions_by_project,
   get_session_count, get_stats: queries *)

\* ORDER BY started_at DESC over the rows of table tbl with the given ids
OrderedByStartedAt(tbl, ids) ==
    {q \in [1..Cardinality(ids) -> ids] :
        /\ \A i, j \in DOMAIN q : i # j => q[i] # q[j]
        /\ \A i, j \in DOMAIN q :
              i < j => tbl[q[i]].started_at >= tbl[q[j]].started_at}

\* the objects loaded for the ids of q
Loaded(q) == [i \in DOMAIN q |-> Load(q[i])]

ActiveCount == Cardinality({s \in DOMAIN sessions : sessions[s].is_active = TRUE})

\* cutoff = now - timedelta(hours); WHERE started_at >= cutoff
get_recent_sessions(hours) ==
    LET cutoff == now - hours * 60
        ids == {s \in DOMAIN sessions : sessions[s].started_at >= cutoff}
    IN \E q \in OrderedByStartedAt(sessions, ids) :
          /\ result' = Outcome("get_recent_sessions", None, "ok", Loaded(q), <<hours>>)
          /\ UNCHANGED <<sessions, tool_executions, user_prompts, assistant_messages,
                         now, uow>>

get_sessions_by_project(project_path) ==
    LET ids == {s \in DOMAIN sessions : sessions[s].project_path = project_path}
    IN \E q \in OrderedByStartedAt(sessions, ids) :
          /\ result' = Outcome("get_sessions_by_project", None, "ok", Loaded(q),
                               <<project_path>>)
          /\ UNCHANGED <<sessions, tool_executions, user_prompts, assistant_messages,
                         now, uow>>

\* (a variant that runs the timeout sweep before it counts)
get_session_count_sweeps(active_only) ==
    LET swept == _check_timeouts(SESSION_TIMEOUT_MINUTES)
        n == IF active_only
             THEN Cardinality({s \in DOMAIN swept : swept[s].is_active = TRUE})
             ELSE Cardinality(DOMAIN swept)
    IN /\ sessions' = swept
       /\ result' = Outcome("get_session_count", None, "ok", <<>>, <<n, active_only>>)
       /\ UNCHANGED <<tool_executions, user_prompts, assistant_messages, now, uow>>

get_session_count(active_only) ==
    LET n == IF active_only THEN ActiveCount ELSE Cardinality(DOMAIN sessions)
    IN /\ result' = Outcome("get_session_count", None, "ok", <<>>, <<n, active_only>>)
       /\ UNCHANGED <<sessions, tool_executions, user_prompts, assistant_messages,
                      now, uow>>

\* the sum of ended_at - started_at over the rows with the ids of S
RECURSIVE DurationSum(_)
DurationSum(S) ==
    IF S = {} THEN 0
    ELSE LET s == CHOOSE x \in S : TRUE
         IN (sessions[s].ended_at - sessions[s].started_at) + DurationSum(S \ {s})

\* get_stats; the average duration is kept as the sum and the number of the
\* rows it is taken over
get_stats ==
    LET ended == {s \in DOMAIN sessions : sessions[s].ended_at # NULL}
        stats == [total_sessions |-> Cardinality(DOMAIN sessions),
                  active_sessions |-> ActiveCount,
                  sessions_last_24h |->
                      Cardinality({s \in DOMAIN sessions :
                                      sessions[s].started_at >= now - 24 * 60}),
                  total_tools_executed |-> Len(tool_executions),
                  average_session_duration |-> <<DurationSum(ended), Cardinality(ended)>>,
                  unique_projects |->
                      Cardinality({sessions[s].project_path : s \in DOMAIN sessions}
                                      \ {None})]
    IN /\ result' = Outcome("get_stats", None, "ok", <<>>, <<stats>>)
       /\ UNCHANGED <<sessions, tool_executions, user_prompts, assistant_messages,
                      now, uow>>

-----------------------------------------------------------------------------
(* The clock *)

Tick ==
    /\ now < MaxTime
    /\ now' = now + TickMinutes
    /\ UNCHANGED <<sessions, tool_executions, user_prompts, assistant_messages, result>>
    /\ UNCHANGED <<uow, busVars, cfgVars, fmVars>>

-----------------------------------------------------------------------------
(* Calls and their arguments *)

Reasons == {None, "exit"}
Projects == {<<"/a", "a">>, <<"/b", "b">>}
Dicts == {{"permission_mode"}}
OptDicts == {NoneDict} \cup Dicts
OptTranscriptPaths == {None, "t.jsonl"}
Sources == {"resume"}
OptToolNames == {None, "Bash"}
Texts == {"hello"}
Embeddings == {None, "vector"}

\* (project_path, project_name, session_metadata) of an end_session call:
\* nothing supplied, only the path, or all three
EndUpdates ==
    {<<None, None, NoneDict>>, <<"/b", None, NoneDict>>,
     <<"/b", "b", {"permission_mode"}>>}

StartSession ==
    /\ UNCHANGED <<uow, busVars, cfgVars, fmVars>>
    /\ \E s \in SessionIds, p \in Projects, tp \in OptTranscriptPaths,
       rc \in OptDicts, src \in Sources :
        start_session(s, p[1], p[2], tp, rc, src)

EndSession ==
    /\ UNCHANGED <<uow, busVars, cfgVars, fmVars>>
    /\ \E s \in SessionIds, r \in Reasons, u \in EndUpdates :
        end_session(s, r, u[1], u[2], u[3])

RecordToolExecution ==
    /\ UNCHANGED <<uow, busVars, cfgVars, fmVars>>
    /\ \E s \in SessionIds, tn \in OptToolNames : record_tool_execution(s, tn)

CaptureUserPrompt ==
    /\ UNCHANGED <<uow, busVars, cfgVars, fmVars>>
    /\ \E s \in SessionIds, txt \in Texts, e \in Embeddings :
        capture_user_prompt(s, txt, e)

CaptureAssistantMessage ==
    /\ UNCHANGED <<uow, busVars, cfgVars, fmVars>>
    /\ \E s \in SessionIds, txt \in Texts, e \in Embeddings :
        capture_assistant_message(s, txt, 0, e)

SessionStart ==
    /\ UNCHANGED <<busVars, cfgVars, fmVars>>
    /\ \E u \in Units, s \in SessionIds : session_start(u, s)

ExecuteReturns ==
    /\ UNCHANGED <<busVars, cfgVars, fmVars>>
    /\ \E u \in Units : execute_returns(u)

RequestEnds ==
    /\ UNCHANGED <<busVars, cfgVars, fmVars>>
    /\ \E u \in Units : request_ends(u)

GetSession ==
    /\ UNCHANGED <<uow, busVars, cfgVars, fmVars>>
    /\ \E s \in SessionIds : get_session(s)

GetActiveSessions ==
    /\ UNCHANGED <<uow, busVars, cfgVars, fmVars>>
    /\ get_active_sessions

GetRecentSessions ==
    /\ UNCHANGED <<busVars, cfgVars, fmVars>>
    /\ \E hours \in {1, 24} : get_recent_sessions(hours)

GetSessionsByProject ==
    /\ UNCHANGED <<busVars, cfgVars, fmVars>>
    /\ \E p \in Projects : get_sessions_by_project(p[1])

GetSessionCount ==
    /\ UNCHANGED <<busVars, cfgVars, fmVars>>
    /\ \E active_only \in BOOLEAN : get_session_count(active_only)

GetStats ==
    /\ UNCHANGED <<busVars, cfgVars, fmVars>>
    /\ get_stats

-----------------------------------------------------------------------------
(* Event Bus: main.py broadcast_event and websocket_endpoint *)

WebSockets == {"w1", "w2", "w3"}
BroadcastIds == 1..MaxBroadcasts
SendOutcomes == {"sent", "failed"}

ConnectsBefore(v, w) ==
    \/ v = "w1" /\ w \in {"w2", "w3"}
    \/ v = "w2" /\ w = "w3"

Contains(list, x) == \E i \in DOMAIN list : list[i] = x

\* list.remove(x): drops the first occurrence of x
ListRemove(list, x) ==
    LET i == CHOOSE k \in DOMAIN list :
                 list[k] = x /\ \A j \in 1..(k - 1) : list[j] # x
    IN SubSeq(list, 1, i - 1) \o SubSeq(list, i + 1, Len(list))

\* for conn in dead_connections: if conn in active_connections: remove(conn)
RECURSIVE CleanUp(_, _)
CleanUp(list, dead) ==
    IF dead = <<>> THEN list
    ELSE CleanUp(IF Contains(list, Head(dead)) THEN ListRemove(list, Head(dead))
                 ELSE list,
                 Tail(dead))

IdleBroadcast ==
    [pc |-> "idle", idx |-> 0, cur |-> None, dead |-> <<>>, status |-> None,
     before |-> <<>>, attempts |-> <<>>, disturbed |-> FALSE]

\* a change of the list by somebody else while a broadcast is iterating
Disturb(actor, newList) ==
    [b \in DOMAIN bc |->
        IF b # actor /\ bc[b].pc = "sending" /\ newList # active_connections
        THEN [bc[b] EXCEPT !.disturbed = TRUE]
        ELSE bc[b]]

\* the list iterator's next(): the item at the index, or the end of the loop,
\* decided on the list as it is now; at the end the clean-up loop runs at
\* once (no await lies between)
IterateOrFinish(b, me) ==
    IF me.idx < Len(active_connections)
    THEN /\ bc' = [bc EXCEPT ![b] = [me EXCEPT !.pc = "sending",
                                               !.cur = active_connections[me.idx + 1],
                                               !.idx = me.idx + 1]]
         /\ UNCHANGED active_connections
    ELSE LET cleaned == CleanUp(active_connections, me.dead)
         IN /\ active_connections' = cleaned
            /\ bc' = [Disturb(b, cleaned) EXCEPT
                         ![b] = [me EXCEPT !.pc = "done", !.cur = None, !.status = "ok"]]

\* broadcast_event is called: dead_connections = [], the loop starts
broadcast_event(b) ==
    /\ bc[b].pc = "idle"
    /\ IterateOrFinish(b, [bc[b] EXCEPT !.before = active_connections])
    /\ UNCHANGED ws

\* (a variant that removes a failing connection inside the loop)
send_json_returns_removesAtOnce(b, outcome) ==
    /\ bc[b].pc = "sending"
    /\ LET me == [bc[b] EXCEPT !.attempts =
                      Append(bc[b].attempts, [conn |-> bc[b].cur, outcome |-> outcome])]
           list == IF outcome = "failed" /\ Contains(active_connections, me.cur)
                   THEN ListRemove(active_connections, me.cur)
                   ELSE active_connections
       IN /\ active_connections' = list
          /\ bc' = [bc EXCEPT ![b] =
                       IF me.idx < Len(list)
                       THEN [me EXCEPT !.cur = list[me.idx + 1], !.idx = me.idx + 1]
                       ELSE [me EXCEPT !.pc = "done", !.cur = None, !.status = "ok"]]
    /\ UNCHANGED ws

\* await connection.send_json(message) returns or raises
send_json_returns(b, outcome) ==
    /\ bc[b].pc = "sending"
    /\ LET me == bc[b]
           attempt == [conn |-> me.cur, outcome |-> outcome]
       IN IterateOrFinish(b,
              [me EXCEPT !.attempts = Append(me.attempts, attempt),
                         !.dead = IF outcome = "failed"
                                  THEN Append(me.dead, me.cur) ELSE me.dead])
    /\ UNCHANGED ws

\* websocket_endpoint up to its receive loop: accept, append.  Every
\* connection is a new WebSocket object; the handles are named in the order
\* in which they connect.
websocket_connect(w) ==
    /\ ws[w] = "new"
    /\ \A v \in WebSockets : ws[v] = "new" => ~ConnectsBefore(v, w)
    /\ ws' = [ws EXCEPT ![w] = "open"]
    /\ active_connections' = Append(active_connections, w)
    /\ bc' = Disturb(0, Append(active_connections, w))

\* (a variant whose finally removes without looking whether the connection
\* is still in the list: list.remove raises ValueError when it is not)
websocket_disconnect_unguarded(w) ==
    /\ ws[w] = "open"
    /\ IF Contains(active_connections, w)
       THEN /\ ws' = [ws EXCEPT ![w] = "closed"]
            /\ active_connections' = ListRemove(active_connections, w)
            /\ bc' = Disturb(0, ListRemove(active_connections, w))
       ELSE /\ ws' = [ws EXCEPT ![w] = "ValueError"]
            /\ UNCHANGED <<active_connections, bc>>

\* websocket_endpoint's finally: the receive loop ended
websocket_disconnect(w) ==
    /\ ws[w] = "open"
    /\ ws' = [ws EXCEPT ![w] = "closed"]
    /\ LET left == IF Contains(active_connections, w)
                   THEN ListRemove(active_connections, w)
                   ELSE active_connections
       IN /\ active_connections' = left
          /\ bc' = Disturb(0, left)

BroadcastEvent ==
    /\ UNCHANGED <<regVars, cfgVars, fmVars>>
    /\ \E b \in DOMAIN bc : broadcast_event(b)

SendJsonReturns ==
    /\ UNCHANGED <<regVars, cfgVars, fmVars>>
    /\ \E b \in DOMAIN bc, o \in SendOutcomes : send_json_returns(b, o)

WebSocketConnect ==
    /\ UNCHANGED <<regVars, cfgVars, fmVars>>
    /\ \E w \in WebSockets : websocket_connect(w)

WebSocketDisconnect ==
    /\ UNCHANGED <<regVars, cfgVars, fmVars>>
    /\ \E w \in WebSockets : websocket_disconnect(w)

-----------------------------------------------------------------------------
(* main.py: the request handlers that change the registry and then tell the
   subscribers.  The registry call comes first; SessionNotFoundException
   leaves the try body before broadcast_event is reached and becomes a 404.
   The handler is suspended in broadcast_event while a send is awaited. *)

\* (a variant of tool_use that broadcasts before it knows the outcome)
tool_use_broadcastsFirst(b, s, tool_name) ==
    /\ record_tool_execution(s, tool_name)
    /\ broadcast_event(b)

\* POST /api/sessions/end: end_session, a read of the row for the payload,
\* broadcast_event
session_end(b, s, reason, project_path, project_name, session_metadata) ==
    /\ end_session(s, reason, project_path, project_name, session_metadata)
    /\ IF result'.status = "ok" THEN broadcast_event(b) ELSE UNCHANGED busVars

\* POST /api/monitoring/tool-use
tool_use(b, s, tool_name) ==
    /\ record_tool_execution(s, tool_name)
    /\ IF result'.status = "ok" THEN broadcast_event(b) ELSE UNCHANGED busVars

\* POST /api/prompts/capture
capture_prompt(b, s, prompt_text, embedding) ==
    /\ capture_user_prompt(s, prompt_text, embedding)
    /\ IF result'.status = "ok" THEN broadcast_event(b) ELSE UNCHANGED busVars

\* POST /api/messages/capture
capture_message(b, s, message_text, conversation_turn, embedding) ==
    /\ capture_assistant_message(s, message_text, conversation_turn, embedding)
    /\ IF result'.status = "ok" THEN broadcast_event(b) ELSE UNCHANGED busVars

SessionEnd ==
    /\ UNCHANGED <<uow, cfgVars, fmVars>>
    /\ \E b \in DOMAIN bc, s \in SessionIds, r \in Reasons, u \in EndUpdates :
          session_end(b, s, r, u[1], u[2], u[3])

ToolUse ==
    /\ UNCHANGED <<uow, cfgVars, fmVars>>
    /\ \E b \in DOMAIN bc, s \in SessionIds, tn \in OptToolNames : tool_use(b, s, tn)

CapturePrompt ==
    /\ UNCHANGED <<uow, cfgVars, fmVars>>
    /\ \E b \in DOMAIN bc, s \in SessionIds, txt \in Texts, e \in Embeddings :
          capture_prompt(b, s, txt, e)

CaptureMessage ==
    /\ UNCHANGED <<uow, cfgVars, fmVars>>
    /\ \E b \in DOMAIN bc, s \in SessionIds, txt \in Texts, e \in Embeddings :
          capture_message(b, s, txt, 0, e)

-----------------------------------------------------------------------------
(* Config Resolver: services/settings_aggregator.py.  A JSON value is a
   scalar [s |-> text] or an object [d |-> map from keys to JSON values];
   a Python dict is the map itself. *)

\* constants.py: settings precedence, lowest to highest
SETTINGS_PRECEDENCE == <<"managed", "user", "project", "local">>

SettingsLevels == {SETTINGS_PRECEDENCE[i] : i \in DOMAIN SETTINGS_PRECEDENCE}

\* isinstance(v, dict)
IsDict(v) == "d" \in DOMAIN v

\* {}
EmptyObject == [d |-> <<>>]

\* the maps from a subset of the keys K to values of V
MapsOver(K, V) == UNION {[S -> V] : S \in SUBSET K}

\* (a variant that never recurses: the incoming value always replaces)
_deep_merge_shallow(base, overlay) ==
    [k \in DOMAIN base \cup DOMAIN overlay |->
        IF k \in DOMAIN overlay THEN overlay[k] ELSE base[k]]

\* (a variant that assigns the recursive call's return value, None, to the key)
RECURSIVE _deep_merge_assignsReturn(_, _)
_deep_merge_assignsReturn(base, overlay) ==
    [k \in DOMAIN base \cup DOMAIN overlay |->
        IF k \notin DOMAIN overlay THEN base[k]
        ELSE IF k \in DOMAIN base /\ IsDict(base[k]) /\ IsDict(overlay[k])
             THEN [s |-> "None"]
             ELSE overlay[k]]

\* base after _deep_merge(base, overlay): for each key of overlay, recurse
\* when both values are dicts, else set base[key] = value
RECURSIVE _deep_merge(_, _)
_deep_merge(base, overlay) ==
    [k \in DOMAIN base \cup DOMAIN overlay |->
        IF k \notin DOMAIN overlay THEN base[k]
        ELSE IF k \in DOMAIN base /\ IsDict(base[k]) /\ IsDict(overlay[k])
             THEN [d |-> _deep_merge(base[k].d, overlay[k].d)]
             ELSE overlay[k]]

\* read_settings_file: the parsed content, or {} when the file is missing,
\* cannot be read or is not valid JSON
read_settings_file(file) ==
    IF file.kind = "json" THEN file.value ELSE EmptyObject

\* (a variant in which a source that cannot be read or parsed ends the
\* reading: the sources after it stay empty)
get_settings_hierarchy_stopsAtFailure(project_path) ==
    [level \in SettingsLevels |->
        LET i == CHOOSE n \in DOMAIN SETTINGS_PRECEDENCE : SETTINGS_PRECEDENCE[n] = level
        IN IF \/ level \in {"project", "local"} /\ project_path = None
              \/ \E n \in 1..(i - 1) :
                    settings_files[SETTINGS_PRECEDENCE[n]].kind \in {"unreadable", "invalid"}
           THEN EmptyObject
           ELSE read_settings_file(settings_files[level])]

\* get_settings_hierarchy: managed and user are always read, project and
\* local only when a project path is given
get_settings_hierarchy(project_path) ==
    [level \in SettingsLevels |->
        IF level \in {"project", "local"} /\ project_path = None
        THEN EmptyObject
        ELSE read_settings_file(settings_files[level])]

\* the loop of compute_effective_settings from level i on; overlay.items()
\* of a layer that is no dict raises AttributeError
RECURSIVE MergeLevels(_, _, _)
MergeLevels(eff, hierarchy, i) ==
    IF i > Len(SETTINGS_PRECEDENCE)
    THEN [status |-> "ok", value |-> eff]
    ELSE LET layer == hierarchy[SETTINGS_PRECEDENCE[i]]
         IN IF ~IsDict(layer)
            THEN [status |-> "AttributeError", value |-> <<>>]
            ELSE MergeLevels(_deep_merge(eff, layer.d), hierarchy, i + 1)

\* (a variant that merges the levels from highest to lowest)
compute_effective_settings_reversed(project_path) ==
    LET h == get_settings_hierarchy(project_path)
        rev == [lv \in SettingsLevels |->
                   CASE lv = "managed" -> h["local"]
                     [] lv = "user" -> h["project"]
                     [] lv = "project" -> h["user"]
                     [] lv = "local" -> h["managed"]]
        out == MergeLevels(<<>>, rev, 1)
    IN [status |-> out.status, value |-> out.value,
        project_path |-> project_path, hierarchy |-> h]

\* what compute_effective_settings(project_path) returns or raises, with the
\* hierarchy it read
compute_effective_settings(project_path) ==
    LET h == get_settings_hierarchy(project_path)
        out == MergeLevels(<<>>, h, 1)
    IN [status |-> out.status, value |-> out.value,
        project_path |-> project_path, hierarchy |-> h]

\* no get_settings_summary call has been made
NoSummary == [status |-> "none"]

CfgIdle ==
    /\ settings_files = [level \in SettingsLevels |-> [kind |-> "missing"]]
    /\ effective = [status |-> "none", value |-> <<>>, project_path |-> None,
                    hierarchy |-> [level \in SettingsLevels |-> EmptyObject]]
    /\ merge = [base |-> <<>>, overlay |-> <<>>, orig |-> <<>>, prev |-> <<>>, n |-> 0]
    /\ summary = NoSummary

\* Calls of the Config Resolver and their inputs

OptProjectPaths == {None, "/p"}

\* each level's file writes its own scalar, so that the level a value of the
\* effective settings came from is visible
LevelScalar(level) ==
    CASE level = "managed" -> "1"
      [] level = "user" -> "2"
      [] level = "project" -> "3"
      [] level = "local" -> "4"

\* the objects a settings file of a level may hold: keys "x" and "a", "x" a
\* scalar, "a" a scalar or a nested object with one key
LayerObjects(level) ==
    LET v == [s |-> LevelScalar(level)]
        nested == {[d |-> [k \in {j} |-> v]] : j \in {"b", "c"}}
    IN {f \in MapsOver({"x", "a"}, {v} \cup nested) :
           "x" \in DOMAIN f => f["x"] = v}

\* the states of a settings file: not there, not readable, not JSON, a JSON
\* object, or JSON that is no object
FileContents(level) ==
    {[kind |-> "missing"], [kind |-> "unreadable"], [kind |-> "invalid"]}
        \cup {[kind |-> "json", value |-> [d |-> f]] : f \in LayerObjects(level)}
        \cup {[kind |-> "json", value |-> [s |-> LevelScalar(level)]]}

ComputeEffectiveSettings ==
    /\ \E p \in OptProjectPaths : effective' = compute_effective_settings(p)
    /\ UNCHANGED <<settings_files, merge, summary>>
    /\ UNCHANGED <<regVars, busVars, fmVars>>

\* the nested configuration values _deep_merge is tried on
MergeScalars == {[s |-> "1"], [s |-> "2"]}

MergeValues == MergeScalars \cup {[d |-> f] : f \in MapsOver({"b", "c"}, MergeScalars)}

MergeObjects == MapsOver({"a", "x"}, MergeValues)

\* one more _deep_merge(base, overlay) on the same accumulator
DeepMerge ==
    /\ merge.n < MaxMerges
    /\ merge' = [merge EXCEPT !.prev = merge.base,
                              !.base = _deep_merge(merge.base, merge.overlay),
                              !.n = merge.n + 1]
    /\ UNCHANGED <<settings_files, effective, summary>>
    /\ UNCHANGED <<regVars, busVars, fmVars>>

(* get_settings_summary works on dict objects: _deep_merge stores the
   incoming values by reference and changes its base in place, and
   dict.copy() is shallow.  The objects of one call are kept on a heap, a
   sequence of dicts; a dict's value is a scalar or a reference to a dict. *)

Ref(a) == [ref |-> a]

IsRef(v) == "ref" \in DOMAIN v

\* the argument is None (a value that is no dict)
NoRuntime == [s |-> "None"]

\* the heap after a dict with the content f, nested dicts included, has been
\* created on it, and the address of that dict
RECURSIVE Alloc(_, _), AllocEntries(_, _, _, _)
AllocEntries(h, f, keys, entries) ==
    IF keys = {}
    THEN [heap |-> h, entries |-> entries]
    ELSE LET k == CHOOSE j \in keys : TRUE
         IN IF IsDict(f[k])
            THEN LET sub == Alloc(h, f[k].d)
                 IN AllocEntries(sub.heap, f, keys \ {k},
                                 [j \in DOMAIN entries \cup {k} |->
                                     IF j = k THEN Ref(sub.addr) ELSE entries[j]])
            ELSE AllocEntries(h, f, keys \ {k},
                              [j \in DOMAIN entries \cup {k} |->
                                  IF j = k THEN f[k] ELSE entries[j]])

Alloc(h, f) ==
    LET r == AllocEntries(h, f, DOMAIN f, <<>>)
    IN [heap |-> Append(r.heap, r.entries), addr |-> Len(r.heap) + 1]

\* the content of the dict at address a, nested dicts included
RECURSIVE Content(_, _)
Content(h, a) ==
    [k \in DOMAIN h[a] |->
        IF IsRef(h[a][k]) THEN [d |-> Content(h, h[a][k].ref)] ELSE h[a][k]]

\* the heap after _deep_merge(base, overlay) on the objects at these
\* addresses, for the keys of overlay still to visit: recurse when both
\* values are dicts, else base[key] = value, the value itself being stored
RECURSIVE DeepMergeKeys(_, _, _, _)
DeepMergeKeys(h, base, overlay, keys) ==
    IF keys = {}
    THEN h
    ELSE LET key == CHOOSE j \in keys : TRUE
             value == h[overlay][key]
             h1 == IF key \in DOMAIN h[base] /\ IsRef(h[base][key]) /\ IsRef(value)
                   THEN DeepMergeKeys(h, h[base][key].ref, value.ref,
                                      DOMAIN h[value.ref])
                   ELSE [h EXCEPT ![base] =
                            [j \in DOMAIN h[base] \cup {key} |->
                                IF j = key THEN value ELSE h[base][j]]]
         IN DeepMergeKeys(h1, base, overlay, keys \ {key})

\* the loop of compute_effective_settings from level i on, on the heap: each
\* layer is the object read_settings_file returned
RECURSIVE MergeLevelsInPlace(_, _, _, _)
MergeLevelsInPlace(h, eff, hierarchy, i) ==
    IF i > Len(SETTINGS_PRECEDENCE)
    THEN [status |-> "ok", heap |-> h]
    ELSE LET layer == hierarchy[SETTINGS_PRECEDENCE[i]]
         IN IF ~IsDict(layer)
            THEN [status |-> "AttributeError", heap |-> h]
            ELSE LET a == Alloc(h, layer.d)
                 IN MergeLevelsInPlace(
                        DeepMergeKeys(a.heap, eff, a.addr, DOMAIN a.heap[a.addr]),
                        eff, hierarchy, i + 1)

\* merge_runtime_overrides(file_based, runtime): result = file_based.copy(),
\* a new dict with the same values, then _deep_merge(result, runtime)
merge_runtime_overrides(h, file_based, runtime) ==
    LET copy == Len(h) + 1
        h1 == Append(h, h[file_based])
    IN [heap |-> DeepMergeKeys(h1, copy, runtime, DOMAIN h1[runtime]),
        addr |-> copy]

\* bool(runtime_config): a non-empty dict
Truthy(runtime_config) == IsDict(runtime_config) /\ DOMAIN runtime_config.d # {}

\* what get_settings_summary(project_path, runtime_config) returns or raises
get_settings_summary(project_path, runtime_config) ==
    LET hierarchy == get_settings_hierarchy(project_path)
        \* effective = {} of compute_effective_settings, at address 1
        files == MergeLevelsInPlace(<< <<>> >>, 1, get_settings_hierarchy(project_path), 1)
        file_based == 1
        rt == IF Truthy(runtime_config)
              THEN Alloc(files.heap, runtime_config.d)
              ELSE [heap |-> files.heap, addr |-> 0]
        merged == IF Truthy(runtime_config)
                  THEN merge_runtime_overrides(rt.heap, file_based, rt.addr)
                  ELSE [heap |-> files.heap, addr |-> file_based]
        active_sources ==
            SelectSeq(SETTINGS_PRECEDENCE, LAMBDA level : hierarchy[level] # EmptyObject)
                \o (IF Truthy(runtime_config) THEN <<"runtime">> ELSE <<>>)
    IN IF files.status # "ok"
       THEN [status |-> files.status, project_path |-> project_path,
             runtime_config |-> runtime_config]
       ELSE [status |-> "ok", project_path |-> project_path,
             runtime_config |-> runtime_config,
             hierarchy |-> hierarchy,
             file_based |-> Content(merged.heap, file_based),
             runtime |-> IF Truthy(runtime_config) THEN runtime_config ELSE EmptyObject,
             effective |-> Content(merged.heap, merged.addr),
             active_sources |-> active_sources,
             total_keys |-> Cardinality(DOMAIN merged.heap[merged.addr]),
             has_runtime_overrides |-> Truthy(runtime_config)]

\* the runtime configurations a caller passes: None, or a dict over the keys
\* "a" (which the files may define too) and "y" (which no file defines)
RuntimeScalar == [s |-> "9"]

RuntimeValues ==
    {RuntimeScalar} \cup {[d |-> [k \in {j} |-> RuntimeScalar]] : j \in {"b", "c"}}

RuntimeConfigs ==
    {NoRuntime} \cup {[d |-> f] : f \in MapsOver({"a", "y"}, RuntimeValues)}

GetSettingsSummary ==
    /\ \E p \in OptProjectPaths, r \in RuntimeConfigs :
          summary' = get_settings_summary(p, r)
    /\ UNCHANGED <<settings_files, effective, merge>>
    /\ UNCHANGED <<regVars, busVars, fmVars>>


-----------------------------------------------------------------------------
(* Watcher: services/file_monitor.py.  A path is the sequence of its
   components; a file system notification is a watchdog FileSystemEvent. *)

\* FileMonitor.observer is None
NoObserver == 0

ClaudeDir == <<"home", ".claude">>
ProjectsPath == ClaudeDir \o <<"projects">>
SessionDir == ProjectsPath \o <<"s1">>
TranscriptPath == SessionDir \o <<"t.jsonl">>
UserSettingsPath == ClaudeDir \o <<"settings.json">>

\* Path.name, Path.parent
PathName(path) == path[Len(path)]
PathParent(path) == SubSeq(path, 1, Len(path) - 1)

\* src_path.endswith(suffix), for the file names and suffixes in use
EndsWith(path, suffix) ==
    <<PathName(path), suffix>> \in
        {<<"t.jsonl", ".jsonl">>, <<"settings.json", "settings.json">>}

\* dict.get(key, default)
DictGet(dict, key, default) == IF key \in DOMAIN dict THEN dict[key] ELSE default

\* Python's None as a value of an event field
PyNone == [s |-> "None"]

\* what a handler did: the events it passed to self.callback (none or one),
\* the exception its except clause caught, the exception that left it
Handled(events, caught, raised) ==
    [events |-> events, caught |-> caught, raised |-> raised]

\* _handle_session_start: the session_start event of a new directory
_handle_session_start(session_dir) ==
    Handled(<<[type |-> "session_start",
               session_id |-> PathName(session_dir),
               project_path |-> PathParent(PathParent(session_dir)),
               timestamp |-> PyNone]>>, None, None)

\* _handle_transcript_created: the path is remembered, no event
_handle_transcript_created(transcript_path) == Handled(<<>>, None, None)

\* what a try body did: the events it passed to self.callback and the
\* exception that ended it
Tried(events, error) == [events |-> events, error |-> error]

\* json.loads(last_line) and the classification by "type"
ClassifyLine(transcript_path, last_line) ==
    CASE last_line.kind = "blank" -> Tried(<<>>, None)
      [] last_line.kind = "invalid" -> Tried(<<>>, "JSONDecodeError")
      [] OTHER ->
           IF ~IsDict(last_line.value)
           THEN \* 'type' in event_data on a number
                Tried(<<>>, "TypeError")
           ELSE LET event_data == last_line.value.d
                IN IF "type" \notin DOMAIN event_data
                   THEN Tried(<<>>, None)
                   ELSE CASE event_data["type"] = [s |-> "tool_use"] ->
                               Tried(<<[type |-> "tool_execution",
                                        session_id |-> PathName(PathParent(transcript_path)),
                                        tool_name |-> DictGet(event_data, "name", [s |-> ""]),
                                        parameters |-> DictGet(event_data, "input", EmptyObject),
                                        timestamp |-> DictGet(event_data, "timestamp", PyNone)]>>,
                                     None)
                          [] event_data["type"] = [s |-> "user_message"] ->
                               Tried(<<[type |-> "user_prompt",
                                        session_id |-> PathName(PathParent(transcript_path)),
                                        content |-> DictGet(event_data, "content", [s |-> ""]),
                                        timestamp |-> DictGet(event_data, "timestamp", PyNone)]>>,
                                     None)
                          [] OTHER -> Tried(<<>>, None)

\* (a variant that takes the first line of the file, lines[0])
ReadLastLine_first(transcript_path, lines) ==
    IF lines = <<>> THEN Tried(<<>>, None)
    ELSE ClassifyLine(transcript_path, lines[1])

\* (a variant that parses and forwards every line of the file, not only the
\* last)
RECURSIVE ReadLastLine_everyLine(_, _)
ReadLastLine_everyLine(transcript_path, lines) ==
    IF lines = <<>> THEN Tried(<<>>, None)
    ELSE LET before == ReadLastLine_everyLine(transcript_path,
                                              SubSeq(lines, 1, Len(lines) - 1))
             last == ClassifyLine(transcript_path, lines[Len(lines)])
         IN Tried(before.events \o last.events, last.error)

\* the try body of _handle_transcript_update: readlines, lines[-1].strip(),
\* return when there is nothing, else parse and classify
ReadLastLine(transcript_path, lines) ==
    IF lines = <<>> THEN Tried(<<>>, None)
    ELSE ClassifyLine(transcript_path, lines[Len(lines)])

\* (a variant without the except clause for JSONDecodeError)
_handle_transcript_update_uncaught(transcript_path, lines) ==
    LET body == ReadLastLine(transcript_path, lines)
    IN IF body.error = "JSONDecodeError"
       THEN Handled(body.events, None, body.error)
       ELSE Handled(body.events, body.error, None)

\* _handle_transcript_update: the try body under its except clauses, which
\* catch every exception
_handle_transcript_update(transcript_path, lines) ==
    LET body == ReadLastLine(transcript_path, lines)
    IN Handled(body.events, body.error, None)

\* the settings level _handle_settings_change infers from the path
SettingsLevelOf(settings_path) ==
    IF \E i \in DOMAIN settings_path : settings_path[i] = ".claude"
    THEN IF PathName(PathParent(settings_path)) = ".claude" THEN "project" ELSE "local"
    ELSE "user"

\* _handle_settings_change on a file in this state: open and json.load, then
\* the settings_update event; every exception is caught
_handle_settings_change(settings_path, file) ==
    CASE file.kind = "missing" -> Handled(<<>>, "FileNotFoundError", None)
      [] file.kind = "unreadable" -> Handled(<<>>, "PermissionError", None)
      [] file.kind = "invalid" -> Handled(<<>>, "JSONDecodeError", None)
      [] OTHER -> Handled(<<[type |-> "settings_update",
                             level |-> SettingsLevelOf(settings_path),
                             settings |-> file.value,
                             path |-> settings_path]>>, None, None)

\* ClaudeCodeEventHandler.on_created
on_created(event) ==
    IF event.is_directory
    THEN IF PathName(PathParent(event.src_path)) = "projects"
         THEN _handle_session_start(event.src_path)
         ELSE Handled(<<>>, None, None)
    ELSE IF EndsWith(event.src_path, ".jsonl")
         THEN _handle_transcript_created(event.src_path)
         ELSE Handled(<<>>, None, None)

\* ClaudeCodeEventHandler.on_modified
on_modified(event) ==
    IF ~event.is_directory /\ EndsWith(event.src_path, ".jsonl")
    THEN _handle_transcript_update(event.src_path, transcript)
    ELSE IF ~event.is_directory /\ EndsWith(event.src_path, "settings.json")
         THEN _handle_settings_change(event.src_path, settings_files["user"])
         ELSE Handled(<<>>, None, None)

\* FileSystemEventHandler.dispatch
dispatch(event) ==
    IF event.event_type = "created" THEN on_created(event) ELSE on_modified(event)

-----------------------------------------------------------------------------
(* main.py handle_file_event: the callback of the Watcher.  It runs on the
   thread that calls it. *)

\* asyncio.create_task needs the running event loop of the calling thread:
\* only the main thread runs one
HasRunningLoop(thread) == thread = "loop"

\* the tasks handle_file_event creates for an event, in order
TasksFor(event) ==
    CASE event.type = "session_start" ->
             IF event.session_id # "" /\ event.project_path # <<>>
             THEN <<[coro |-> "start_session_task", event |-> event],
                    [coro |-> "broadcast_event", event |-> event]>>
             ELSE <<>>
      [] event.type = "tool_execution" ->
             (IF event.session_id # ""
              THEN <<[coro |-> "record_tool_task", event |-> event]>> ELSE <<>>)
                 \o <<[coro |-> "broadcast_event", event |-> event]>>
      [] event.type = "settings_update" ->
             <<[coro |-> "broadcast_event", event |-> event]>>
      [] OTHER -> <<>>

\* handle_file_event(event) called on a thread: the tasks it created, or the
\* RuntimeError of its first asyncio.create_task
handle_file_event(event, thread) ==
    IF TasksFor(event) = <<>> THEN [status |-> "ok", created |-> <<>>]
    ELSE IF ~HasRunningLoop(thread)
         THEN [status |-> "RuntimeError", created |-> <<>>]
         ELSE [status |-> "ok", created |-> TasksFor(event)]

-----------------------------------------------------------------------------
(* FileMonitor and the watchdog Observer it holds.  An Observer is a thread
   with a queue of notifications: it dispatches them one at a time to the
   event handler while it should keep running; stop() asks it to end,
   join() waits until it has. *)

DeadObserver ==
    [state |-> "dead", watch_settings |-> FALSE, queue |-> <<>>, cur |-> <<>>,
     log |-> <<>>]

\* Observer(), schedule(projects_path, recursive), schedule(the directory of
\* the user settings) when that file exists, start()
NewObserver ==
    [state |-> "alive",
     watch_settings |-> settings_files["user"].kind # "missing",
     queue |-> <<>>, cur |-> <<>>, log |-> <<>>]

\* Thread.is_alive() of an Observer
IsAlive(o) == observers[o].state # "dead"

\* FileMonitor.is_running
is_running == observer # NoObserver /\ IsAlive(observer)

\* the main thread after a call of FileMonitor returned: the call, the
\* observer and the root directory it found, whether it made an Observer,
\* whether it found the observer's thread inside a handler, and the call
\* before it
FmReturned(op, made) ==
    [pc |-> "idle", op |-> op, before |-> observer, root |-> root_exists,
     made |-> made, flip |-> ~fm.flip, prev |-> <<fm.op, fm.made>>,
     busy |-> observer # NoObserver /\ observers[observer].cur # <<>>]

\* (a variant of start without the check for a running observer)
start_ignoresRunning ==
    /\ fm.pc = "idle"
    /\ IF ~root_exists
       THEN /\ fm' = FmReturned("start", FALSE)
            /\ UNCHANGED <<observer, observers>>
       ELSE /\ Len(observers) < MaxObservers
            /\ observers' = Append(observers, NewObserver)
            /\ observer' = Len(observers) + 1
            /\ fm' = FmReturned("start", TRUE)
    /\ UNCHANGED <<root_exists, transcript, delivered, tasks>>

\* (a variant of start without the check for the projects directory)
start_ignoresMissingRoot ==
    /\ fm.pc = "idle"
    /\ IF observer # NoObserver
       THEN /\ fm' = FmReturned("start", FALSE)
            /\ UNCHANGED <<observer, observers>>
       ELSE /\ Len(observers) < MaxObservers
            /\ observers' = Append(observers, NewObserver)
            /\ observer' = Len(observers) + 1
            /\ fm' = FmReturned("start", TRUE)
    /\ UNCHANGED <<root_exists, transcript, delivered, tasks>>

\* FileMonitor.start
start ==
    /\ fm.pc = "idle"
    /\ IF observer # NoObserver \/ ~root_exists
       THEN /\ fm' = FmReturned("start", FALSE)
            /\ UNCHANGED <<observer, observers>>
       ELSE /\ Len(observers) < MaxObservers
            /\ observers' = Append(observers, NewObserver)
            /\ observer' = Len(observers) + 1
            /\ fm' = FmReturned("start", TRUE)
    /\ UNCHANGED <<root_exists, transcript, delivered, tasks>>

\* observer.stop(): the thread is asked to end; its watches emit no more
StopRequested(o) ==
    [observers EXCEPT ![o] = IF @.state = "alive"
                             THEN [@ EXCEPT !.state = "stopping"] ELSE @]

\* (a variant of stop without observer.join())
stop_withoutJoin ==
    /\ fm.pc = "idle"
    /\ IF observer = NoObserver
       THEN /\ fm' = FmReturned("stop", FALSE)
            /\ UNCHANGED <<observer, observers>>
       ELSE /\ observers' = StopRequested(observer)
            /\ observer' = NoObserver
            /\ fm' = FmReturned("stop", FALSE)
    /\ UNCHANGED <<root_exists, transcript, delivered, tasks>>

\* FileMonitor.stop up to observer.join(): nothing to do without an
\* observer, else observer.stop() and the main thread waits in join()
stop ==
    /\ fm.pc = "idle"
    /\ IF observer = NoObserver
       THEN /\ fm' = FmReturned("stop", FALSE)
            /\ UNCHANGED <<observer, observers>>
       ELSE /\ observers' = StopRequested(observer)
            /\ fm' = [FmReturned("stop", FALSE) EXCEPT !.pc = "joining"]
            /\ UNCHANGED observer
    /\ UNCHANGED <<root_exists, transcript, delivered, tasks>>

\* observer.join() returns once the thread has ended; self.observer = None
join_returns ==
    /\ fm.pc = "joining"
    /\ ~IsAlive(observer)
    /\ observer' = NoObserver
    /\ fm' = [fm EXCEPT !.pc = "idle"]
    /\ UNCHANGED <<root_exists, transcript, observers, delivered, tasks>>

-----------------------------------------------------------------------------
(* The Observer thread *)

\* BaseObserver.run: while it should keep running, the thread takes the next
\* notification of its queue
dispatch_events(o) ==
    /\ observers[o].state = "alive"
    /\ observers[o].cur = <<>>
    /\ observers[o].queue # <<>>
    /\ observers' = [observers EXCEPT ![o].cur = <<Head(observers[o].queue)>>,
                                      ![o].queue = Tail(observers[o].queue)]
    /\ UNCHANGED <<root_exists, transcript, observer, fm, delivered, tasks>>

\* the handler of the notification runs on the Observer thread: it reads the
\* file and calls self.callback (handle_file_event) inside its try; an
\* exception that leaves the handler ends the thread
handler_returns(o) ==
    /\ observers[o].cur # <<>>
    /\ LET event == observers[o].cur[1]
           out == dispatch(event)
           calls == [i \in DOMAIN out.events |->
                        handle_file_event(out.events[i], "watcher")]
           caught == IF out.events # <<>> /\ calls[1].status # "ok"
                     THEN calls[1].status ELSE out.caught
           run == [events |-> Len(out.events), caught |-> caught]
       IN /\ delivered' = delivered \o
                 [i \in DOMAIN out.events |->
                     [event |-> out.events[i], thread |-> "watcher",
                      status |-> calls[i].status]]
          /\ tasks' = tasks \o (IF out.events # <<>> THEN calls[1].created ELSE <<>>)
          /\ observers' = [observers EXCEPT ![o] =
                 IF out.raised # None
                 THEN [@ EXCEPT !.state = "dead", !.cur = <<>>, !.queue = <<>>,
                                !.log = Append(@, run)]
                 ELSE [@ EXCEPT !.cur = <<>>, !.log = Append(@, run)]]
    /\ UNCHANGED <<root_exists, transcript, observer, fm>>

\* the thread finds that it should not keep running, and ends
thread_exits(o) ==
    /\ observers[o].state = "stopping"
    /\ observers[o].cur = <<>>
    /\ observers' = [observers EXCEPT ![o] = DeadObserver]
    /\ UNCHANGED <<root_exists, transcript, observer, fm, delivered, tasks>>

-----------------------------------------------------------------------------
(* main.py lifespan after its yield, and the tasks handle_file_event would
   put on the event loop *)

\* start_session_task: start_session in a session of its own, committed, or
\* rolled back on any exception
start_session_task(event) ==
    start_session(event.session_id, event.project_path,
                  PathName(event.project_path), None, NoneDict, None)

\* record_tool_task: record_tool_execution(db=db, session_id=session_id),
\* without the tool name and the parameters of the event
record_tool_task(event) == record_tool_execution(event.session_id, None)

\* the shutdown part of lifespan: file_monitor.stop() ...
lifespan_stop ==
    /\ fm.op = "start"
    /\ stop

\* ... and, when stop has returned, await close_db(); nothing in between
close_db ==
    /\ fm.pc = "idle"
    /\ fm.op = "stop"
    /\ fm' = [fm EXCEPT !.op = "close_db", !.prev = <<fm.op, fm.made>>,
                        !.flip = ~fm.flip]
    /\ UNCHANGED <<root_exists, transcript, observer, observers, delivered, tasks>>

-----------------------------------------------------------------------------
(* The file system under the Watcher *)

\* a notification reaches the queue of every Observer whose watches are
\* active; the queue skips one equal to the notification it got last
Notify(event, from_settings_dir) ==
    [o \in DOMAIN observers |->
        IF /\ observers[o].state = "alive"
           /\ from_settings_dir => observers[o].watch_settings
           /\ ~(/\ observers[o].queue # <<>>
                /\ observers[o].queue[Len(observers[o].queue)] = event)
        THEN [observers[o] EXCEPT !.queue = Append(@, event)]
        ELSE observers[o]]

\* the notifications an Observer has got so far: handled, in hand, queued
Seen(o) == Len(observers[o].log) + Len(observers[o].cur) + Len(observers[o].queue)

CanNotify ==
    \A o \in DOMAIN observers :
        observers[o].state = "alive" => Seen(o) < MaxNotifications

FileSystemEvent(event_type, is_directory, src_path) ==
    [event_type |-> event_type, is_directory |-> is_directory, src_path |-> src_path]

JsonLine(map) == [kind |-> "json", value |-> [d |-> map]]

\* the lines a transcript gets: tool_use and user_message records, a record
\* of another type, a record without type, JSON that is no object, text that
\* is no JSON, a blank line
TranscriptLines ==
    {JsonLine([k \in {"type", "name", "input"} |->
                  CASE k = "type" -> [s |-> "tool_use"]
                    [] k = "name" -> [s |-> "Bash"]
                    [] k = "input" -> [d |-> [j \in {"command"} |-> [s |-> "ls"]]]]),
     JsonLine([k \in {"type", "content"} |->
                  IF k = "type" THEN [s |-> "user_message"] ELSE [s |-> "hello"]]),
     JsonLine([k \in {"type", "content"} |->
                  IF k = "type" THEN [s |-> "assistant_message"] ELSE [s |-> "hi"]]),
     JsonLine([k \in {"name"} |-> [s |-> "Bash"]]),
     [kind |-> "json", value |-> [s |-> "5"]],
     [kind |-> "invalid"],
     [kind |-> "blank"]}

UserSettingsWrites ==
    {[kind |-> "invalid"], [kind |-> "unreadable"],
     [kind |-> "json", value |-> [d |-> [k \in {"x"} |-> [s |-> "2"]]]]}

CreateProjectsDir ==
    /\ ~root_exists
    /\ root_exists' = TRUE
    /\ UNCHANGED <<transcript, observer, observers, fm, delivered, tasks>>
    /\ UNCHANGED <<regVars, busVars, cfgVars>>

RemoveProjectsDir ==
    /\ root_exists
    /\ root_exists' = FALSE
    /\ transcript' = <<>>
    /\ UNCHANGED <<observer, observers, fm, delivered, tasks>>
    /\ UNCHANGED <<regVars, busVars, cfgVars>>

CreateSessionDir ==
    /\ root_exists
    /\ CanNotify
    /\ observers' = Notify(FileSystemEvent("created", TRUE, SessionDir), FALSE)
    /\ UNCHANGED <<root_exists, transcript, observer, fm, delivered, tasks>>
    /\ UNCHANGED <<regVars, busVars, cfgVars>>

AppendTranscript ==
    /\ root_exists
    /\ CanNotify
    /\ Len(transcript) < MaxLines
    /\ \E line \in TranscriptLines : transcript' = Append(transcript, line)
    /\ observers' = Notify(FileSystemEvent("modified", FALSE, TranscriptPath), FALSE)
    /\ UNCHANGED <<root_exists, observer, fm, delivered, tasks>>
    /\ UNCHANGED <<regVars, busVars, effective, merge, summary, settings_files>>

WriteUserSettings ==
    /\ CanNotify
    /\ \E file \in UserSettingsWrites :
          settings_files' = [settings_files EXCEPT !["user"] = file]
    /\ observers' = Notify(FileSystemEvent("modified", FALSE, UserSettingsPath), TRUE)
    /\ UNCHANGED <<root_exists, transcript, observer, fm, delivered, tasks>>
    /\ UNCHANGED <<regVars, busVars, effective, merge, summary>>

(* The calls of FileMonitor and the steps of its threads *)

Start ==
    /\ start
    /\ UNCHANGED <<regVars, busVars, cfgVars>>

Stop ==
    /\ stop
    /\ UNCHANGED <<regVars, busVars, cfgVars>>

JoinReturns ==
    /\ join_returns
    /\ UNCHANGED <<regVars, busVars, cfgVars>>

DispatchEvents ==
    /\ \E o \in DOMAIN observers : dispatch_events(o)
    /\ UNCHANGED <<regVars, busVars, cfgVars>>

HandlerReturns ==
    /\ \E o \in DOMAIN observers : handler_returns(o)
    /\ UNCHANGED <<regVars, busVars, cfgVars>>

ThreadExits ==
    /\ \E o \in DOMAIN observers : thread_exits(o)
    /\ UNCHANGED <<regVars, busVars, cfgVars>>

LifespanStop ==
    /\ lifespan_stop
    /\ UNCHANGED <<regVars, busVars, cfgVars>>

CloseDb ==
    /\ close_db
    /\ UNCHANGED <<regVars, busVars, cfgVars>>

FmIdle ==
    /\ root_exists = FALSE
    /\ transcript = <<>>
    /\ observer = NoObserver
    /\ observers = <<>>
    /\ fm = [pc |-> "idle", op |-> "init", before |-> NoObserver, root |-> FALSE,
             made |-> FALSE, flip |-> FALSE, prev |-> <<"init", FALSE>>,
             busy |-> FALSE]
    /\ delivered = <<>>
    /\ tasks = <<>>

-----------------------------------------------------------------------------
(* Initial states.  The tables outlive the process (clean_db.py exists to
   truncate them), so the registry starts on whatever rows the database
   holds: for each id no row, an active row, or an ended row.  The row of
   "s1", when there is one, was started one tick before that of "s2". *)

InitStartedAt(s) == IF s = "s1" THEN 0 ELSE TickMinutes

InitRows(s) ==
    {r \in [project_path : {"/a"}, project_name : {"a"},
            started_at : {InitStartedAt(s)}, ended_at : {NULL, 2 * TickMinutes},
            is_active : BOOLEAN, session_metadata : {EmptyDict}] :
        r.is_active <=> r.ended_at = NULL}

InitTables ==
    UNION {{f \in [S -> UNION {InitRows(s) : s \in S}] :
               \A s \in S : f[s] \in InitRows(s)} : S \in SUBSET SessionIds}

BusInit ==
    /\ active_connections = <<>>
    /\ ws = [w \in WebSockets |-> "new"]
    /\ bc = [b \in BroadcastIds |-> IdleBroadcast]

Init ==
    /\ now = 2 * TickMinutes
    /\ sessions \in InitTables
    /\ tool_executions = <<>>
    /\ user_prompts = <<>>
    /\ assistant_messages = <<>>
    /\ result = Outcome("init", None, "ok", <<>>, <<>>)
    /\ uow = [u \in Units |-> IdleUnit]
    /\ BusInit
    /\ CfgIdle
    /\ FmIdle

Next ==
    \/ StartSession
    \/ EndSession
    \/ RecordToolExecution
    \/ CaptureUserPrompt
    \/ CaptureAssistantMessage
    \/ GetSession
    \/ GetActiveSessions
    \/ Tick

Spec == Init /\ [][Next]_vars

(* The queries of the registry on tables that age *)

NextQueries ==
    \/ GetSession
    \/ GetRecentSessions
    \/ GetSessionsByProject
    \/ GetSessionCount
    \/ GetStats
    \/ GetActiveSessions
    \/ Tick

SpecQueries == Init /\ [][NextQueries]_vars

(* Two start requests of hooks, interleaved at their awaits *)

InitRace ==
    /\ now = 2 * TickMinutes
    /\ sessions \in InitTables
    /\ tool_executions = <<>>
    /\ user_prompts = <<>>
    /\ assistant_messages = <<>>
    /\ result = Outcome("init", None, "ok", <<>>, <<>>)
    /\ uow = [u \in Units |-> IdleUnit]
    /\ BusInit
    /\ CfgIdle
    /\ FmIdle

NextRace ==
    \/ SessionStart
    \/ ExecuteReturns
    \/ RequestEnds

SpecRace == InitRace /\ [][NextRace]_vars

(* The Event Bus on its own: connections come and go, events are broadcast *)

InitBus ==
    /\ now = 0
    /\ sessions = <<>>
    /\ tool_executions = <<>>
    /\ user_prompts = <<>>
    /\ assistant_messages = <<>>
    /\ result = Outcome("init", None, "ok", <<>>, <<>>)
    /\ uow = [u \in Units |-> IdleUnit]
    /\ BusInit
    /\ CfgIdle
    /\ FmIdle

NextBus ==
    \/ BroadcastEvent
    \/ SendJsonReturns
    \/ WebSocketConnect
    \/ WebSocketDisconnect

SpecBus == InitBus /\ [][NextBus]_vars

\* the registry untouched: empty tables, no request in flight
RegIdle ==
    /\ now = 0
    /\ sessions = <<>>
    /\ tool_executions = <<>>
    /\ user_prompts = <<>>
    /\ assistant_messages = <<>>
    /\ result = Outcome("init", None, "ok", <<>>, <<>>)
    /\ uow = [u \in Units |-> IdleUnit]

(* The Event Bus with two broadcasts that may run at the same time *)

BroadcastPair == {1, 2}

InitBusPair ==
    /\ RegIdle
    /\ active_connections = <<>>
    /\ ws = [w \in WebSockets |-> "new"]
    /\ bc = [b \in BroadcastPair |-> IdleBroadcast]
    /\ CfgIdle
    /\ FmIdle

SpecBusPair == InitBusPair /\ [][NextBus]_vars

(* The Config Resolver on its own: the settings files are whatever the
   machine holds; the effective settings are computed from them *)

InitSettings ==
    /\ RegIdle
    /\ BusInit
    /\ FmIdle
    /\ settings_files \in [SettingsLevels -> UNION {FileContents(l) : l \in SettingsLevels}]
    /\ \A l \in SettingsLevels : settings_files[l] \in FileContents(l)
    /\ effective = [status |-> "none", value |-> <<>>, project_path |-> None,
                    hierarchy |-> [level \in SettingsLevels |-> EmptyObject]]
    /\ merge = [base |-> <<>>, overlay |-> <<>>, orig |-> <<>>, prev |-> <<>>, n |-> 0]
    /\ summary = NoSummary

NextSettings == ComputeEffectiveSettings

SpecSettings == InitSettings /\ [][NextSettings]_vars

(* _deep_merge on its own: an accumulator and a layer, merged repeatedly *)

InitMerge ==
    /\ RegIdle
    /\ BusInit
    /\ FmIdle
    /\ settings_files = [level \in SettingsLevels |-> [kind |-> "missing"]]
    /\ effective = [status |-> "none", value |-> <<>>, project_path |-> None,
                    hierarchy |-> [level \in SettingsLevels |-> EmptyObject]]
    /\ \E b \in MergeObjects, o \in MergeObjects :
          merge = [base |-> b, overlay |-> o, orig |-> b, prev |-> b, n |-> 0]
    /\ summary = NoSummary

NextMerge == DeepMerge

SpecMerge == InitMerge /\ [][NextMerge]_vars

(* get_settings_summary on its own: the user and project settings files are
   whatever the machine holds; summaries are asked with and without a runtime
   configuration *)

InitSummary ==
    /\ RegIdle
    /\ BusInit
    /\ FmIdle
    /\ \E u \in FileContents("user"), p \in FileContents("project") :
          settings_files = [level \in SettingsLevels |->
                               CASE level = "user" -> u
                                 [] level = "project" -> p
                                 [] OTHER -> [kind |-> "missing"]]
    /\ effective = [status |-> "none", value |-> <<>>, project_path |-> None,
                    hierarchy |-> [level \in SettingsLevels |-> EmptyObject]]
    /\ merge = [base |-> <<>>, overlay |-> <<>>, orig |-> <<>>, prev |-> <<>>, n |-> 0]
    /\ summary = NoSummary

NextSummary == GetSettingsSummary

SpecSummary == InitSummary /\ [][NextSummary]_vars

(* The Watcher's handlers: the state after lifespan's file_monitor.start()
   on an existing projects directory; from there transcripts, settings and
   session directories change and the Observer thread handles the
   notifications *)

InitWatch ==
    /\ RegIdle
    /\ BusInit
    /\ effective = [status |-> "none", value |-> <<>>, project_path |-> None,
                    hierarchy |-> [level \in SettingsLevels |-> EmptyObject]]
    /\ merge = [base |-> <<>>, overlay |-> <<>>, orig |-> <<>>, prev |-> <<>>, n |-> 0]
    /\ summary = NoSummary
    /\ \E file \in {[kind |-> "missing"]} \cup UserSettingsWrites :
          settings_files = [level \in SettingsLevels |->
                               IF level = "user" THEN file ELSE [kind |-> "missing"]]
    /\ root_exists = TRUE
    /\ transcript = <<>>
    /\ observer = 1
    /\ observers = <<NewObserver>>
    /\ fm = [pc |-> "idle", op |-> "start", before |-> NoObserver, root |-> TRUE,
             made |-> TRUE, flip |-> TRUE, prev |-> <<"init", FALSE>>,
             busy |-> FALSE]
    /\ delivered = <<>>
    /\ tasks = <<>>

NextWatch ==
    \/ DispatchEvents
    \/ HandlerReturns
    \/ CreateSessionDir
    \/ AppendTranscript
    \/ WriteUserSettings

SpecWatch == InitWatch /\ [][NextWatch]_vars

(* The application from the end of lifespan's startup to the end of its
   shutdown: the database holds a row of session "s1" or none, the Watcher
   runs, session directories and transcript lines appear, and at some point
   the server shuts down *)

InitLifespan ==
    /\ now = 2 * TickMinutes
    /\ sessions \in {t \in InitTables : DOMAIN t \subseteq {"s1"}}
    /\ tool_executions = <<>>
    /\ user_prompts = <<>>
    /\ assistant_messages = <<>>
    /\ result = Outcome("init", None, "ok", <<>>, <<>>)
    /\ uow = [u \in Units |-> IdleUnit]
    /\ BusInit
    /\ CfgIdle
    /\ root_exists = TRUE
    /\ transcript = <<>>
    /\ observer = 1
    /\ observers = <<NewObserver>>
    /\ fm = [pc |-> "idle", op |-> "start", before |-> NoObserver, root |-> TRUE,
             made |-> TRUE, flip |-> TRUE, prev |-> <<"init", FALSE>>,
             busy |-> FALSE]
    /\ delivered = <<>>
    /\ tasks = <<>>

NextLifespan ==
    \/ DispatchEvents
    \/ HandlerReturns
    \/ ThreadExits
    \/ CreateSessionDir
    \/ AppendTranscript
    \/ LifespanStop
    \/ JoinReturns
    \/ CloseDb

SpecLifespan == InitLifespan /\ [][NextLifespan]_vars

(* The request path: hooks post session ends, tool uses, prompts and
   messages for sessions the database holds or does not hold, while
   subscribers connect; one request at most gets as far as its broadcast *)

InitRequests ==
    /\ now = 2 * TickMinutes
    /\ sessions \in {t \in InitTables : DOMAIN t \subseteq {"s1"}}
    /\ tool_executions = <<>>
    /\ user_prompts = <<>>
    /\ assistant_messages = <<>>
    /\ result = Outcome("init", None, "ok", <<>>, <<>>)
    /\ uow = [u \in Units |-> IdleUnit]
    /\ active_connections = <<>>
    /\ ws = [w \in WebSockets |-> "new"]
    /\ bc = [b \in {1} |-> IdleBroadcast]
    /\ CfgIdle
    /\ FmIdle

NextRequests ==
    \/ SessionEnd
    \/ ToolUse
    \/ CapturePrompt
    \/ CaptureMessage
    \/ SendJsonReturns
    \/ WebSocketConnect

SpecRequests == InitRequests /\ [][NextRequests]_vars

(* The life cycle of the Watcher: FileMonitor is started and stopped, the
   projects directory comes and goes, session directories are created *)

InitMonitor ==
    /\ RegIdle
    /\ BusInit
    /\ CfgIdle
    /\ root_exists \in BOOLEAN
    /\ transcript = <<>>
    /\ observer = NoObserver
    /\ observers = <<>>
    /\ fm = [pc |-> "idle", op |-> "init", before |-> NoObserver, root |-> root_exists,
             made |-> FALSE, flip |-> FALSE, prev |-> <<"init", FALSE>>,
             busy |-> FALSE]
    /\ delivered = <<>>
    /\ tasks = <<>>

NextMonitor ==
    \/ Start
    \/ Stop
    \/ JoinReturns
    \/ DispatchEvents
    \/ HandlerReturns
    \/ ThreadExits
    \/ CreateProjectsDir
    \/ RemoveProjectsDir
    \/ CreateSessionDir

SpecMonitor == InitMonitor /\ [][NextMonitor]_vars

-----------------------------------------------------------------------------
(* Properties of the Session Registry *)

\* a step that is a call of registry operation op (the clock stands still
\* during a call, and every call writes its outcome)
Call(op) == now' = now /\ result'.op = op

ChildOps == {"record_tool_execution", "capture_user_prompt", "capture_assistant_message"}

\* C1: for every id and every prior state of it, start_session followed
\* immediately by get_session returns a record with is_active = true and
\* ended_at = null.
C1_StartThenGetIsActive ==
    [][(result.op = "start_session" /\ Call("get_session")
            /\ result'.sid = result.sid)
        => /\ Len(result'.rows) = 1
           /\ result'.rows[1].is_active = TRUE
           /\ result'.rows[1].ended_at = NULL]_vars

\* C2: after a start_session call there is exactly one record of that id, and
\* its project path and project name are those of that (the most recent)
\* start_session call.
C2_StartKeepsOneRecordWithNewProject ==
    result.op = "start_session"
        => /\ Exists(result.sid)
           /\ sessions[result.sid].project_path = result.args[1]
           /\ sessions[result.sid].project_name = result.args[2]

\* C3: end_session on an id that has no record fails with
\* SessionNotFoundException and creates or modifies no record.
C3_EndUnknownIsNotFound ==
    [][(Call("end_session") /\ ~Exists(result'.sid))
        => /\ result'.status = "SessionNotFoundException"
           /\ UNCHANGED <<sessions, tool_executions, user_prompts, assistant_messages>>]_vars

C3_Witness ==
    /\ result.op = "end_session"
    /\ result.was = "absent"
    /\ result.status = "SessionNotFoundException"
    /\ ~Exists(result.sid)
    /\ DOMAIN sessions # {}

\* C4: end_session on an active id sets is_active = false and a non-null end
\* timestamp equal to or later than the start timestamp, and the record holds
\* the supplied reason.
C4_EndActiveStoresEndAndReason ==
    [][(Call("end_session") /\ Exists(result'.sid)
            /\ sessions[result'.sid].is_active = TRUE)
        => LET row == sessions'[result'.sid]
           IN /\ row.is_active = FALSE
              /\ row.ended_at # NULL
              /\ row.ended_at >= row.started_at
              /\ "reason" \in DOMAIN row
              /\ row["reason"] = result'.args[1]]_vars

\* C5 (as claimed): end_session called on a session that is already ended
\* fails.
C5_EndOfEndedFails ==
    (result.op = "end_session" /\ result.was = "ended") => result.status # "ok"

\* C5 (amended): end_session called on a session that is already ended does
\* not fail and is not a no-op: it returns the record, leaves it inactive and
\* overwrites its end timestamp with the time of the call.
C5_EndOfEndedOverwritesEnd ==
    [][(Call("end_session") /\ Exists(result'.sid)
            /\ sessions[result'.sid].is_active = FALSE)
        => /\ result'.status = "ok"
           /\ Len(result'.rows) = 1
           /\ sessions'[result'.sid].is_active = FALSE
           /\ sessions'[result'.sid].ended_at = now]_vars

C5_Witness ==
    /\ result.op = "end_session"
    /\ result.was = "ended"
    /\ result.status = "ok"
    /\ sessions[result.sid].ended_at = now
    /\ now > 2 * TickMinutes

\* C6: record_tool_execution, capture_user_prompt and
\* capture_assistant_message on an id with no record each fail with
\* SessionNotFoundException and leave the three child tables unchanged.
C6_ChildOfUnknownIsNotFound ==
    [][\A op \in ChildOps :
          (Call(op) /\ ~Exists(result'.sid))
          => /\ result'.status = "SessionNotFoundException"
             /\ UNCHANGED <<tool_executions, user_prompts, assistant_messages>>]_vars

C6_Witness ==
    /\ result.op \in ChildOps
    /\ result.was = "absent"
    /\ result.status = "SessionNotFoundException"
    /\ ChildCount = 0

\* C7: start_session never fails: for any id in any prior state it returns
\* the created or reactivated record.
C7_StartNeverFails ==
    result.op = "start_session"
        => /\ result.status = "ok"
           /\ Len(result.rows) = 1
           /\ result.rows[1].session_id = result.sid

\* C8: in every reachable state every session flagged active has a null end
\* timestamp.
C8_ActiveHasNoEnd ==
    \A s \in DOMAIN sessions :
        sessions[s].is_active = TRUE => sessions[s].ended_at = NULL

C8_Witness ==
    /\ result.op = "get_active_sessions"
    /\ result.args[1] >= 1
    /\ \E s \in DOMAIN sessions : sessions[s].is_active = TRUE
    /\ \E s \in DOMAIN sessions : sessions[s].ended_at = now

\* C9: a get_active_sessions query force-ends exactly the sessions that are
\* flagged active, have no end timestamp and started more than the timeout
\* window before the query: each of them becomes inactive with a non-null
\* end timestamp and is absent from the result; every other record is
\* unchanged; the result is exactly the sessions still flagged active.
C9_SweepEndsExactlyTheStale ==
    [][Call("get_active_sessions")
        => LET returned == {result'.rows[i].session_id : i \in DOMAIN result'.rows}
               stale(s) == /\ sessions[s].is_active = TRUE
                           /\ sessions[s].ended_at = NULL
                           /\ now - sessions[s].started_at > SESSION_TIMEOUT_MINUTES
           IN /\ DOMAIN sessions' = DOMAIN sessions
              /\ \A s \in DOMAIN sessions :
                    IF stale(s)
                    THEN /\ sessions'[s].is_active = FALSE
                         /\ sessions'[s].ended_at # NULL
                         /\ s \notin returned
                    ELSE sessions'[s] = sessions[s]
              /\ returned = {s \in DOMAIN sessions' : sessions'[s].is_active = TRUE}
              /\ Len(result'.rows) = Cardinality(returned)]_vars

C9_Witness ==
    /\ result.op = "get_active_sessions"
    /\ result.args[1] = 1
    /\ Len(result.rows) = 1
    /\ \E s \in DOMAIN sessions :
          /\ sessions[s].is_active = FALSE
          /\ sessions[s].ended_at = now
          /\ s # result.rows[1].session_id

\* C22: when two start requests for the same id, which neither found in
\* the table, were in flight at the same time and both have ended, the table
\* holds a record with that id and both requests returned it without an
\* exception.
C22_ConcurrentStartsYieldOneRecord ==
    \A u, v \in Units :
        (/\ u # v
         /\ uow[u].pc = "done" /\ uow[v].pc = "done"
         /\ uow[u].sid = uow[v].sid
         /\ uow[u].overlapped /\ uow[v].overlapped
         /\ ~uow[u].found /\ ~uow[v].found)
        => /\ Exists(uow[u].sid)
           /\ uow[u].status = "ok"
           /\ uow[v].status = "ok"

ReadOps ==
    {"get_session", "get_recent_sessions", "get_sessions_by_project",
     "get_session_count", "get_stats"}

\* an active session whose start lies more than the timeout window back
Stale(s) ==
    /\ sessions[s].is_active = TRUE
    /\ sessions[s].ended_at = NULL
    /\ now - sessions[s].started_at > SESSION_TIMEOUT_MINUTES

\* C25: get_session, get_recent_sessions, get_sessions_by_project,
\* get_session_count and get_stats leave every session record (and every
\* child record) as it is, and what they return shows a stale session as
\* active: get_session returns it flagged active, the active count of
\* get_session_count and of get_stats includes it.
C25_SweepIsLazy ==
    [][(\E op \in ReadOps : Call(op))
        => /\ UNCHANGED <<sessions, tool_executions, user_prompts, assistant_messages>>
           /\ result'.status = "ok"
           /\ (result'.op = "get_session" /\ Exists(result'.sid))
                 => result'.rows[1].is_active = sessions[result'.sid].is_active
           /\ (result'.op = "get_session_count" /\ result'.args[2])
                 => result'.args[1] = ActiveCount
           /\ result'.op = "get_stats"
                 => result'.args[1].active_sessions = ActiveCount]_vars

C25_Witness ==
    /\ result.op = "get_stats"
    /\ result.args[1].active_sessions = 2
    /\ Stale("s1")
    /\ ~Stale("s2")
    /\ sessions["s2"].is_active = TRUE

\* a child record of session s stored within the timeout window before now
\* (the clock of the model spans less than one window, so every prompt and
\* message it holds was stored within the window)
RecentChild(s) ==
    \/ \E i \in DOMAIN tool_executions :
          /\ tool_executions[i].session_id = s
          /\ now - tool_executions[i].executed_at <= SESSION_TIMEOUT_MINUTES
    \/ \E i \in DOMAIN user_prompts : user_prompts[i].session_id = s
    \/ \E i \in DOMAIN assistant_messages : assistant_messages[i].session_id = s

\* C26: record_tool_execution, capture_user_prompt and
\* capture_assistant_message leave every session record (so its start
\* timestamp) as it is, and a get_active_sessions query force-ends an active
\* session whose start timestamp is older than the window although a child
\* record was stored for it within the window.
C26_ActivityDoesNotPostponeTimeout ==
    [][/\ (\E op \in ChildOps : Call(op)) => sessions' = sessions
       /\ Call("get_active_sessions")
            => \A s \in DOMAIN sessions :
                  (Stale(s) /\ RecentChild(s))
                  => /\ sessions'[s].is_active = FALSE
                     /\ sessions'[s].ended_at = now
                     /\ \A i \in DOMAIN result'.rows : result'.rows[i].session_id # s]_vars

C26_Witness ==
    /\ result.op = "get_active_sessions"
    /\ result.args[1] >= 1
    /\ now > 2 * TickMinutes
    /\ sessions["s1"].is_active = FALSE
    /\ sessions["s1"].ended_at = now
    /\ sessions["s1"].started_at < now - SESSION_TIMEOUT_MINUTES
    /\ Len(tool_executions) = 1
    /\ tool_executions[1].session_id = "s1"
    /\ now - tool_executions[1].executed_at <= SESSION_TIMEOUT_MINUTES

\* C27: start_session on an existing record (ended, timed out or active)
\* sets its start timestamp to the time of the call, and a
\* get_active_sessions query that follows at once (so within one window of
\* the call) does not force-end that session.
C27_ReactivationRestartsTheWindow ==
    [][/\ \A s \in DOMAIN sessions :
            (Call("start_session") /\ result'.sid = s)
            => /\ s \in DOMAIN sessions'
               /\ sessions'[s].started_at = now
       /\ (result.op = "start_session" /\ Exists(result.sid)
              /\ result.was # "absent" /\ Call("get_active_sessions"))
            => ~(/\ sessions[result.sid].is_active = TRUE
                 /\ sessions'[result.sid].is_active = FALSE)]_vars

\* the "first observed at" marker of a stored record: the first_seen_at entry
\* of the column claudia_metadata, NULL when the record has none
FirstSeenAt(row) ==
    IF "claudia_metadata" \in DOMAIN row THEN row["claudia_metadata"] ELSE NULL

\* C28: a record that start_session creates carries the marker; no
\* operation changes the marker of a record that has one; and start_session
\* on an existing record overwrites its start timestamp.
C28_FirstSeenIsWriteOnce ==
    [][/\ \A s \in SessionIds :
            (Call("start_session") /\ result'.sid = s /\ ~Exists(s))
            => /\ s \in DOMAIN sessions'
               /\ FirstSeenAt(sessions'[s]) = now
       /\ \A s \in DOMAIN sessions \cap DOMAIN sessions' :
            FirstSeenAt(sessions[s]) # NULL
                => FirstSeenAt(sessions'[s]) = FirstSeenAt(sessions[s])
       /\ \A s \in DOMAIN sessions :
            (Call("start_session") /\ result'.sid = s)
            => /\ s \in DOMAIN sessions'
               /\ sessions'[s].started_at = now]_vars

\* C29: after start_session on a record that was ended, the record has no
\* end timestamp and no end reason.
C29_ReactivationClearsEndMarkers ==
    [][\A s \in DOMAIN sessions :
          (Call("start_session") /\ result'.sid = s /\ Lifecycle(s) = "ended")
          => /\ s \in DOMAIN sessions'
             /\ sessions'[s].ended_at = NULL
             /\ "reason" \notin DOMAIN sessions'[s]]_vars

\* C30: an end_session call that returns sets project path, project name
\* and metadata of its record to the argument where one is supplied and
\* leaves each of them as it was where none is; the record keeps its id and
\* its start timestamp; no other record and no child record changes.
C30_EndSessionFrame ==
    [][(Call("end_session") /\ result'.status = "ok")
        => LET s == result'.sid
               project_path == result'.args[2]
               project_name == result'.args[3]
               session_metadata == result'.args[4]
           IN /\ DOMAIN sessions' = DOMAIN sessions
              /\ result'.rows[1].session_id = s
              /\ sessions'[s].project_path =
                    IF project_path # None THEN project_path
                    ELSE sessions[s].project_path
              /\ sessions'[s].project_name =
                    IF project_name # None THEN project_name
                    ELSE sessions[s].project_name
              /\ sessions'[s].session_metadata =
                    IF session_metadata # NoneDict THEN session_metadata
                    ELSE sessions[s].session_metadata
              /\ sessions'[s].started_at = sessions[s].started_at
              /\ \A t \in DOMAIN sessions \ {s} : sessions'[t] = sessions[t]
              /\ UNCHANGED <<tool_executions, user_prompts, assistant_messages>>]_vars

C30_Witness ==
    /\ result.op = "end_session"
    /\ result.status = "ok"
    /\ result.sid = "s1"
    /\ result.args = <<"exit", "/b", None, NoneDict>>
    /\ sessions["s1"].project_path = "/b"
    /\ sessions["s1"].project_name = "a"
    /\ sessions["s1"].session_metadata = EmptyDict
    /\ sessions["s1"].started_at = 0
    /\ Len(tool_executions) = 1
    /\ tool_executions[1].session_id = "s1"

\* the session ids the child records refer to
ChildSessionIds ==
    {tool_executions[i].session_id : i \in DOMAIN tool_executions}
        \cup {user_prompts[i].session_id : i \in DOMAIN user_prompts}
        \cup {assistant_messages[i].session_id : i \in DOMAIN assistant_messages}

\* q is p or p with records appended
Extends(q, p) == Len(q) >= Len(p) /\ SubSeq(q, 1, Len(p)) = p

\* C31: every tool-execution, user-prompt and assistant-message record
\* refers to a session record that exists; no step removes a session record
\* (the set of session ids only grows), and no step removes or changes a
\* child record, so ended sessions keep theirs.
C31_ChildrenReferToExistingSessions ==
    /\ [](ChildSessionIds \subseteq DOMAIN sessions)
    /\ [][/\ DOMAIN sessions \subseteq DOMAIN sessions'
          /\ Extends(tool_executions', tool_executions)
          /\ Extends(user_prompts', user_prompts)
          /\ Extends(assistant_messages', assistant_messages)]_vars

C31_Witness ==
    /\ result.op = "get_active_sessions"
    /\ result.args[1] = 1
    /\ Len(user_prompts) = 1
    /\ user_prompts[1].session_id = "s1"
    /\ sessions["s1"].is_active = FALSE
    /\ sessions["s1"].ended_at = now

-----------------------------------------------------------------------------
(* Properties of the Event Bus *)

\* C10: in one broadcast during which nobody else changes the subscriber
\* list: every subscriber of the list gets exactly one delivery attempt (in
\* list order), so every subscriber whose send does not fail receives the
\* event; the list is not changed while the loop is running; when the call
\* returns the list is the previous list without exactly the subscribers
\* whose send failed; and the call returns normally.
C10_BroadcastIsolatesFailures ==
    [][\A b \in BroadcastIds :
          /\ (bc'[b].pc = "sending"
                /\ (bc[b].pc = "idle" \/ bc'[b].attempts # bc[b].attempts))
                => active_connections' = active_connections
          /\ (bc[b].pc # "done" /\ bc'[b].pc = "done" /\ ~bc'[b].disturbed)
                => LET me == bc'[b]
                       failed == {me.attempts[i].conn :
                                     i \in {j \in DOMAIN me.attempts :
                                               me.attempts[j].outcome = "failed"}}
                       Healthy(w) == w \notin failed
                   IN /\ [i \in DOMAIN me.attempts |-> me.attempts[i].conn] = me.before
                      /\ active_connections' = SelectSeq(me.before, Healthy)
                      /\ me.status = "ok"]_vars

C10_Witness ==
    \E b \in BroadcastIds :
        /\ bc[b].pc = "done"
        /\ ~bc[b].disturbed
        /\ bc[b].before = <<"w1", "w2", "w3">>
        /\ Len(bc[b].attempts) = 3
        /\ bc[b].attempts[1].outcome = "sent"
        /\ bc[b].attempts[2] = [conn |-> "w2", outcome |-> "failed"]
        /\ bc[b].attempts[3].outcome = "sent"
        /\ active_connections = <<"w1", "w3">>

\* the number of delivery attempts a broadcast made to subscriber w
AttemptsTo(me, w) ==
    Cardinality({i \in DOMAIN me.attempts : me.attempts[i].conn = w})

\* C23: when a broadcast ends, every subscriber that was in the list when it
\* began and is still in it at its end (so was registered all the while,
\* whoever else connected or disconnected meanwhile) got exactly one
\* delivery attempt.
C23_StayingSubscribersGetOneAttempt ==
    [][\A b \in BroadcastIds :
          (bc[b].pc # "done" /\ bc'[b].pc = "done")
          => \A w \in WebSockets :
                (Contains(bc'[b].before, w) /\ Contains(active_connections, w))
                    => AttemptsTo(bc'[b], w) = 1]_vars

\* the subscribers whose send failed in a broadcast
FailedIn(me) ==
    {me.attempts[i].conn :
        i \in {j \in DOMAIN me.attempts : me.attempts[j].outcome = "failed"}}

\* C24: however broadcasts and disconnects interleave: a broadcast that ends
\* returns normally and every subscriber whose send failed in it is absent
\* from the list; a disconnect handler ends normally and its subscriber is
\* absent from the list; and a subscriber leaves the list only by its own
\* disconnect or at the end of a broadcast in which its send failed.
C24_ConcurrentRemovalsAreSafe ==
    [][/\ \A b \in DOMAIN bc :
            (bc[b].pc # "done" /\ bc'[b].pc = "done")
            => /\ bc'[b].status = "ok"
               /\ \A w \in FailedIn(bc'[b]) : ~Contains(active_connections', w)
       /\ \A w \in WebSockets :
            /\ (ws[w] = "open" /\ ws'[w] # "open")
                 => /\ ws'[w] = "closed"
                    /\ ~Contains(active_connections', w)
            /\ (Contains(active_connections, w) /\ ~Contains(active_connections', w))
                 => \/ ws[w] = "open" /\ ws'[w] = "closed"
                    \/ \E b \in DOMAIN bc :
                          /\ bc[b].pc # "done" /\ bc'[b].pc = "done"
                          /\ w \in FailedIn(bc'[b])]_vars

C24_Witness ==
    /\ bc[1].pc = "done" /\ bc[2].pc = "done"
    /\ bc[1].status = "ok" /\ bc[2].status = "ok"
    /\ bc[1].before = <<"w1", "w2">> /\ bc[2].before = <<"w1", "w2">>
    /\ FailedIn(bc[1]) = {"w2"} /\ FailedIn(bc[2]) = {"w2"}
    /\ bc[2].disturbed
    /\ ws["w2"] = "open"
    /\ active_connections = <<"w1">>

-----------------------------------------------------------------------------
(* Properties of the Config Resolver *)

\* the layer a level contributes to the last computation, read off its file:
\* TRUE when the file held a JSON object and the level was consulted
LayerPresent(level) ==
    /\ settings_files[level].kind = "json"
    /\ IsDict(settings_files[level].value)
    /\ (level \in {"project", "local"} => effective.project_path # None)

LayerOf(level) == settings_files[level].value.d

\* the indices (in the order managed < user < project < local) of the levels
\* whose layer defines key k
DefinedAt(k) ==
    {i \in DOMAIN SETTINGS_PRECEDENCE :
        /\ LayerPresent(SETTINGS_PRECEDENCE[i])
        /\ k \in DOMAIN LayerOf(SETTINGS_PRECEDENCE[i])}

HighestOf(S) == CHOOSE i \in S : \A j \in S : j <= i

C12_ManagedIsNotOverridden ==
    (effective.status = "ok" /\ LayerPresent("managed")) =>
        \A k \in DOMAIN LayerOf("managed") :
            /\ k \in DOMAIN effective.value
            /\ effective.value[k] = LayerOf("managed")[k]

\* the levels whose file the last computation read
Consulted(level) ==
    level \in {"project", "local"} => effective.project_path # None

\* C21: in a computation of the effective settings, a source whose file is
\* missing, unreadable or not valid JSON gives the empty layer, and without
\* a project path the project and local layers are empty; when no file read
\* holds anything but a JSON object (or is missing, unreadable, invalid) the
\* computation returns without error, and every key of every layer that
\* was read is a key of the effective settings.
C21_SourcesAreIndependent ==
    effective.status # "none" =>
        /\ \A level \in SettingsLevels :
              settings_files[level].kind \in {"missing", "unreadable", "invalid"}
                  => effective.hierarchy[level] = EmptyObject
        /\ effective.project_path = None
              => /\ effective.hierarchy["project"] = EmptyObject
                 /\ effective.hierarchy["local"] = EmptyObject
        /\ (\A level \in SettingsLevels :
               (Consulted(level) /\ settings_files[level].kind = "json")
                   => IsDict(settings_files[level].value))
              => /\ effective.status = "ok"
                 /\ \A level \in SettingsLevels :
                       LayerPresent(level)
                           => /\ effective.hierarchy[level] = settings_files[level].value
                              /\ \A k \in DOMAIN LayerOf(level) :
                                    k \in DOMAIN effective.value

C21_Witness ==
    /\ effective.status = "ok"
    /\ effective.project_path = "/p"
    /\ settings_files["managed"].kind = "missing"
    /\ settings_files["user"].kind = "invalid"
    /\ settings_files["project"].kind = "unreadable"
    /\ LayerPresent("local")
    /\ effective.hierarchy["user"] = EmptyObject
    /\ effective.value = [k \in {"x"} |-> [s |-> "4"]]

\* C13: _deep_merge is idempotent: merging a layer into an accumulator equal
\* to it leaves the accumulator as it was, and merging the same layer a
\* second time into any accumulator changes nothing further.
C13_DeepMergeIdempotent ==
    /\ (merge.n >= 1 /\ merge.orig = merge.overlay) => merge.base = merge.orig
    /\ merge.n >= 2 => merge.base = merge.prev

C13_Witness ==
    /\ merge.n = 2
    /\ merge.base = merge.prev
    /\ merge.base # merge.orig
    /\ merge.base # merge.overlay
    /\ \E k \in DOMAIN merge.orig \cap DOMAIN merge.overlay :
          /\ IsDict(merge.orig[k]) /\ IsDict(merge.overlay[k])
          /\ merge.base[k] # merge.overlay[k]

\* C14: after one _deep_merge the accumulator has the keys of both; a key
\* only the accumulator had keeps its value; for a key of the incoming layer,
\* when both values are nested maps the result is a nested map with the keys
\* of both, the incoming entry winning where both have one, and otherwise the
\* incoming value replaces the current one.
C14_DeepMergeRule ==
    merge.n = 1 =>
        /\ DOMAIN merge.base = DOMAIN merge.orig \cup DOMAIN merge.overlay
        /\ \A k \in DOMAIN merge.base :
              IF k \notin DOMAIN merge.overlay
              THEN merge.base[k] = merge.orig[k]
              ELSE IF k \in DOMAIN merge.orig /\ IsDict(merge.orig[k])
                                              /\ IsDict(merge.overlay[k])
                   THEN LET cur == merge.orig[k].d
                            inc == merge.overlay[k].d
                        IN /\ IsDict(merge.base[k])
                           /\ DOMAIN merge.base[k].d = DOMAIN cur \cup DOMAIN inc
                           /\ \A j \in DOMAIN merge.base[k].d :
                                 merge.base[k].d[j] = IF j \in DOMAIN inc
                                                      THEN inc[j] ELSE cur[j]
                   ELSE merge.base[k] = merge.overlay[k]

C14_Witness ==
    /\ merge.n = 1
    /\ merge.orig = [k \in {"a"} |-> [d |-> [j \in {"b"} |-> [s |-> "1"]]]]
    /\ merge.overlay = [k \in {"a"} |-> [d |-> [j \in {"c"} |-> [s |-> "2"]]]]
    /\ merge.base = [k \in {"a"} |->
                        [d |-> [j \in {"b", "c"} |->
                                   IF j = "b" THEN [s |-> "1"] ELSE [s |-> "2"]]]]

\* C32: in the result of get_settings_summary the file_based field is the
\* file-derived effective configuration, whatever runtime_config was passed:
\* a key only the runtime configuration supplies, also one nested inside a map
\* the files define, is in effective and not in file_based.
C32_FileBasedIsFileDerived ==
    summary.status = "ok" =>
        summary.file_based = compute_effective_settings(summary.project_path).value

\* without a runtime configuration file_based is the file-derived one
FileBasedWithoutRuntime ==
    (summary.status = "ok" /\ ~Truthy(summary.runtime_config)) =>
        /\ summary.file_based = compute_effective_settings(summary.project_path).value
        /\ summary.effective = summary.file_based

\* the registry operations the request handlers call before they broadcast
RequestOps == {"end_session"} \cup ChildOps

\* C39: on the request path a broadcast starts only in a step in which
\* end_session, record_tool_execution, capture_user_prompt or
\* capture_assistant_message returned successfully; a request whose registry
\* call fails with SessionNotFoundException starts no broadcast and leaves
\* the subscriber list as it was.
C39_BroadcastOnlyAfterSuccess ==
    [][/\ (result' # result /\ result'.status = "SessionNotFoundException")
            => UNCHANGED <<active_connections, ws, bc>>
       /\ \A b \in DOMAIN bc :
             (bc[b].pc = "idle" /\ bc'[b].pc # "idle")
                 => /\ result'.op \in RequestOps
                    /\ result'.status = "ok"
                    /\ result'.sid \in DOMAIN sessions]_vars

C39_Witness ==
    /\ result.op = "record_tool_execution"
    /\ result.status = "SessionNotFoundException"
    /\ result.sid = "s2"
    /\ active_connections = <<"w1", "w2">>
    /\ \A b \in DOMAIN bc : bc[b].pc = "idle"
    /\ tool_executions = <<>>

-----------------------------------------------------------------------------
(* Properties of the Watcher *)

\* a step in which the handler of a notification returns on Observer o
HandlerStep(o) ==
    /\ o \in DOMAIN observers
    /\ observers[o].cur # <<>>
    /\ observers'[o].cur = <<>>
    /\ Len(observers'[o].log) = Len(observers[o].log) + 1

\* the callback calls made in a step
NewlyDelivered == SubSeq(delivered', Len(delivered) + 1, Len(delivered'))

IsTranscriptModification(event) ==
    event.event_type = "modified" /\ ~event.is_directory /\ event.src_path = TranscriptPath

IsSettingsModification(event) ==
    event.event_type = "modified" /\ ~event.is_directory /\ event.src_path = UserSettingsPath

\* the "type" tag of a transcript line, or "" when the line is no JSON object
\* or has none
TypeTag(line) ==
    IF line.kind = "json" /\ IsDict(line.value) /\ "type" \in DOMAIN line.value.d
    THEN line.value.d["type"].s ELSE ""

\* C15: when the handler of a modification notification of the transcript
\* runs, the callback is called exactly once with a tool_execution event
\* carrying the name and input of the record on the file's final line when
\* that record has type tool_use, exactly once with a user_prompt event
\* carrying its content when it has type user_message, and not at all for
\* any other or missing type.
C15_FinalLineIsClassified ==
    [][\A o \in DOMAIN observers :
          (HandlerStep(o) /\ IsTranscriptModification(observers[o].cur[1])
              /\ transcript # <<>>)
          => LET final == transcript[Len(transcript)]
                 tag == TypeTag(final)
             IN CASE tag = "tool_use" ->
                       /\ Len(NewlyDelivered) = 1
                       /\ NewlyDelivered[1].event.type = "tool_execution"
                       /\ NewlyDelivered[1].event.tool_name = final.value.d["name"]
                       /\ NewlyDelivered[1].event.parameters = final.value.d["input"]
                  [] tag = "user_message" ->
                       /\ Len(NewlyDelivered) = 1
                       /\ NewlyDelivered[1].event.type = "user_prompt"
                       /\ NewlyDelivered[1].event.content = final.value.d["content"]
                  [] OTHER -> NewlyDelivered = <<>>]_vars

C15_Witness ==
    /\ Len(transcript) = 2
    /\ TypeTag(transcript[1]) = "user_message"
    /\ TypeTag(transcript[2]) = "tool_use"
    /\ Len(delivered) = 1
    /\ delivered[1].event.type = "tool_execution"
    /\ delivered[1].event.tool_name = [s |-> "Bash"]
    /\ delivered[1].event.parameters = [d |-> [j \in {"command"} |-> [s |-> "ls"]]]
    /\ Len(observers[1].log) = 2

\* the lines of a file that are not blank, in order
NonBlank(lines) == SelectSeq(lines, LAMBDA line : line.kind # "blank")

\* C33: when the handler of a modification notification of the transcript
\* runs, the record it parses and forwards is the one on the file's final
\* non-empty line: blank lines after the last record do not hide it.
C33_FinalNonEmptyLineIsForwarded ==
    [][\A o \in DOMAIN observers :
          (HandlerStep(o) /\ IsTranscriptModification(observers[o].cur[1])
              /\ NonBlank(transcript) # <<>>)
          => LET final == NonBlank(transcript)[Len(NonBlank(transcript))]
                 tag == TypeTag(final)
             IN CASE tag = "tool_use" ->
                       /\ Len(NewlyDelivered) = 1
                       /\ NewlyDelivered[1].event.type = "tool_execution"
                       /\ NewlyDelivered[1].event.tool_name = final.value.d["name"]
                       /\ NewlyDelivered[1].event.parameters = final.value.d["input"]
                  [] tag = "user_message" ->
                       /\ Len(NewlyDelivered) = 1
                       /\ NewlyDelivered[1].event.type = "user_prompt"
                       /\ NewlyDelivered[1].event.content = final.value.d["content"]
                  [] OTHER -> NewlyDelivered = <<>>]_vars

\* the event is the one the record on this line gives
FromLine(event, line) ==
    \/ /\ TypeTag(line) = "tool_use"
       /\ event.type = "tool_execution"
       /\ event.tool_name = line.value.d["name"]
       /\ event.parameters = line.value.d["input"]
    \/ /\ TypeTag(line) = "user_message"
       /\ event.type = "user_prompt"
       /\ event.content = line.value.d["content"]

\* C34: the handler of one modification notification of the transcript calls
\* the callback at most once, with the event of the line that is last when
\* the handler re-reads the file; records on earlier lines give no event
\* then, so of several records appended before the handler runs only the
\* last is forwarded, and a second notification handled with no append in
\* between forwards the same last record again.
C34_AtMostOneEventPerNotification ==
    [][\A o \in DOMAIN observers :
          (HandlerStep(o) /\ IsTranscriptModification(observers[o].cur[1]))
          => /\ Len(NewlyDelivered) <= 1
             /\ \A i \in DOMAIN NewlyDelivered :
                   /\ transcript # <<>>
                   /\ FromLine(NewlyDelivered[i].event, transcript[Len(transcript)])
                   /\ \A n \in 1..(Len(transcript) - 1) :
                         transcript[n] # transcript[Len(transcript)]
                             => ~FromLine(NewlyDelivered[i].event, transcript[n])]_vars

C34_Witness ==
    /\ Len(transcript) = 2
    /\ TypeTag(transcript[1]) = "tool_use"
    /\ TypeTag(transcript[2]) = "user_message"
    /\ Len(observers[1].log) = 2
    /\ observers[1].queue = <<>>
    /\ Len(delivered) = 2
    /\ \A i \in 1..2 : /\ delivered[i].event.type = "user_prompt"
                       /\ delivered[i].event.content = [s |-> "hello"]

\* C35: when the handler of a modification notification of a settings file
\* runs and the file holds JSON, the callback is called exactly once with a
\* settings_update event that carries the parsed content, the path, and the
\* level of the file: user for <home>/.claude/settings.json.
C35_SettingsUpdateCarriesLevel ==
    [][\A o \in DOMAIN observers :
          (HandlerStep(o) /\ IsSettingsModification(observers[o].cur[1])
              /\ settings_files["user"].kind = "json")
          => /\ Len(NewlyDelivered) = 1
             /\ NewlyDelivered[1].event.type = "settings_update"
             /\ NewlyDelivered[1].event.settings = settings_files["user"].value
             /\ NewlyDelivered[1].event.path = UserSettingsPath
             /\ NewlyDelivered[1].event.level = "user"]_vars

\* C18: each event the watcher produces on its thread is handed over to the
\* event loop as a task, and the step of the watcher thread itself changes
\* no state of the Session Registry or the Event Bus.
C18_EventsBecomeTasks ==
    [][\A o \in DOMAIN observers :
          (HandlerStep(o) /\ NewlyDelivered # <<>>)
          => /\ UNCHANGED <<regVars, busVars>>
             /\ Len(tasks') > Len(tasks)]_vars

\* the tasks created on the event loop in a step
NewTasks == SubSeq(tasks', Len(tasks) + 1, Len(tasks'))

\* C36: every event handed to the callback (session_start, tool_execution,
\* user_prompt, settings_update) leads to one broadcast: one broadcast_event
\* task for that event is created on the event loop.
C36_EveryEventIsBroadcast ==
    [][\A i \in DOMAIN NewlyDelivered :
          Cardinality({t \in DOMAIN NewTasks :
                          /\ NewTasks[t].coro = "broadcast_event"
                          /\ NewTasks[t].event = NewlyDelivered[i].event}) = 1]_vars

\* C37: once no task is waiting on the event loop, every tool_execution
\* event the Watcher forwarded for an existing session has a tool-execution
\* child record of that session that carries the tool name of the event.
C37_ToolEventIsStored ==
    \A i \in DOMAIN delivered :
        (/\ delivered[i].event.type = "tool_execution"
         /\ delivered[i].event.session_id \in DOMAIN sessions
         /\ tasks = <<>>)
        => \E r \in DOMAIN tool_executions :
              /\ tool_executions[r].session_id = delivered[i].event.session_id
              /\ tool_executions[r].tool_name = delivered[i].event.tool_name.s

CloseDbAfterWatcherStopped ==
    fm.op = "close_db" =>
        /\ observer = NoObserver
        /\ \A o \in DOMAIN observers :
              observers[o].state = "dead" /\ observers[o].cur = <<>>

\* a step that is a call of FileMonitor.start or FileMonitor.stop
FmCall(op) == fm'.flip # fm.flip /\ fm'.op = op

\* the Observers whose thread has not ended, in the state after a step
LiveObserversNext == {o \in DOMAIN observers' : observers'[o].state # "dead"}

\* C16: start on a FileMonitor that holds an observer and stop on one that
\* holds none return at once and change nothing; after every step at most
\* one Observer is alive; and start on a stopped FileMonitor whose projects
\* directory exists yields a running watcher (also after a stop).
C16_StartStopIdempotent ==
    [][/\ (FmCall("start") /\ observer # NoObserver)
            => /\ fm'.pc = "idle"
               /\ UNCHANGED <<observer, observers, root_exists, transcript,
                              delivered, tasks>>
       /\ (FmCall("stop") /\ observer = NoObserver)
            => /\ fm'.pc = "idle"
               /\ UNCHANGED <<observer, observers, root_exists, transcript,
                              delivered, tasks>>
       /\ Cardinality(LiveObserversNext) <= 1
       /\ (FmCall("start") /\ observer = NoObserver /\ root_exists)
            => is_running']_vars

C16_Witness ==
    /\ fm.op = "start"
    /\ fm.pc = "idle"
    /\ fm.made
    /\ fm.prev[1] = "stop"
    /\ Len(observers) = 2
    /\ observers[1].state = "dead"
    /\ observer = 2
    /\ is_running

\* C17: whenever stop has returned (FileMonitor holds no observer and the
\* main thread is not inside a call), no Observer thread is alive and none
\* is inside a handler, and as long as that lasts the callback is not
\* called.
C17_NoCallbackAfterStop ==
    [][/\ (fm'.pc = "idle" /\ observer' = NoObserver)
            => \A o \in DOMAIN observers' :
                  observers'[o].state = "dead" /\ observers'[o].cur = <<>>
       /\ (fm.pc = "idle" /\ observer = NoObserver)
            => delivered' = delivered /\ tasks' = tasks]_vars

C17_Witness ==
    /\ fm.op = "stop"
    /\ fm.pc = "idle"
    /\ fm.busy
    /\ fm.before = 1
    /\ observer = NoObserver
    /\ observers[1].state = "dead"
    /\ delivered # <<>>

\* C19: start on a FileMonitor without observer whose projects directory
\* does not exist returns normally, creates no Observer and leaves
\* is_running false; a start after such a start, once the directory exists,
\* starts the watcher.
C19_MissingRootDisablesWatcher ==
    [][/\ (FmCall("start") /\ observer = NoObserver /\ ~root_exists)
            => /\ fm'.pc = "idle"
               /\ observers' = observers
               /\ observer' = NoObserver
               /\ ~is_running'
       /\ (FmCall("start") /\ fm.op = "start" /\ ~fm.made /\ fm.before = NoObserver
              /\ root_exists)
            => /\ fm'.made
               /\ is_running']_vars

C19_Witness ==
    /\ fm.op = "start"
    /\ fm.made
    /\ fm.prev = <<"start", FALSE>>
    /\ Len(observers) = 1
    /\ is_running

\* C20: when the handler runs for a transcript whose final line is no valid
\* JSON, or for a settings file that cannot be read or is no valid JSON, the
\* callback is not called and no task is created, no exception leaves the
\* handler (the Observer thread goes on as before), and the notifications
\* still queued stay queued for it.
C20_MalformedInputIsDropped ==
    [][\A o \in DOMAIN observers :
          (/\ HandlerStep(o)
           /\ \/ /\ IsTranscriptModification(observers[o].cur[1])
                 /\ transcript # <<>>
                 /\ transcript[Len(transcript)].kind = "invalid"
              \/ /\ IsSettingsModification(observers[o].cur[1])
                 /\ settings_files["user"].kind \in {"unreadable", "invalid", "missing"})
          => /\ NewlyDelivered = <<>>
             /\ tasks' = tasks
             /\ observers'[o].state = observers[o].state
             /\ observers'[o].queue = observers[o].queue]_vars

C20_Witness ==
    /\ Len(observers[1].log) = 2
    /\ observers[1].log[1] = [events |-> 0, caught |-> "JSONDecodeError"]
    /\ observers[1].log[2].events = 1
    /\ observers[1].state = "alive"
    /\ Len(transcript) = 2
    /\ transcript[1].kind = "invalid"
    /\ Len(delivered) = 1

====
